---- MODULE Spec2Model ----
(***************************************************************************)
(* Morning Scanner: the news scoring core (keyword matcher, signal         *)
(* detector, score fusion) and the pipeline's per-item classification      *)
(* loop.                                                                   *)
(*                                                                         *)
(* Texts are TLA+ strings, positions are 0-based character offsets as in   *)
(* Python.  Scores are exact rationals <<n, d>> with d > 0 in lowest       *)
(* terms; the source computes them in binary floating point, which agrees  *)
(* with the exact value except for rounding in the last place (a sum such  *)
(* as 0.8 - 0.5 compares greater than 0.3 in the source).  No property     *)
(* below rests on a score that lies exactly on a threshold of a float      *)
(* comparison.                                                             *)
(***************************************************************************)
EXTENDS Integers, Sequences, FiniteSets, TLC

(***************************************************************************)
(* Exact rationals.                                                        *)
(***************************************************************************)
Abs(n) == IF n < 0 THEN -n ELSE n

RECURSIVE Gcd(_, _)
Gcd(a, b) == IF b = 0 THEN a ELSE Gcd(b, a % b)

R(n, d) ==
    LET g == Gcd(Abs(n), Abs(d))
        s == IF d < 0 THEN -1 ELSE 1
    IN  <<(s * n) \div g, (s * d) \div g>>

RAdd(a, b) == R(a[1] * b[2] + b[1] * a[2], a[2] * b[2])
RNeg(a) == <<-a[1], a[2]>>
RSub(a, b) == RAdd(a, RNeg(b))
RMul(a, b) == R(a[1] * b[1], a[2] * b[2])
RDiv(a, b) == R(a[1] * b[2], a[2] * b[1])
RLt(a, b) == a[1] * b[2] < b[1] * a[2]
RLe(a, b) == a[1] * b[2] <= b[1] * a[2]
RGt(a, b) == RLt(b, a)
RGe(a, b) == RLe(b, a)
RMin(a, b) == IF RLe(a, b) THEN a ELSE b
RMax(a, b) == IF RGe(a, b) THEN a ELSE b
RAbs(a) == <<Abs(a[1]), a[2]>>
Zero == R(0, 1)
One == R(1, 1)
Tenths(n) == R(n, 10)
Hundredths(n) == R(n, 100)

RECURSIVE RSum(_)
RSum(s) == IF s = <<>> THEN Zero ELSE RAdd(Head(s), RSum(Tail(s)))

(***************************************************************************)
(* Python str operations.                                                  *)
(***************************************************************************)
Char(s, i) == SubSeq(s, i + 1, i + 1)
Slice(s, from, to) == SubSeq(s, from + 1, to)
StartsAt(s, sub, i) == i + Len(sub) <= Len(s) /\ SubSeq(s, i + 1, i + Len(sub)) = sub

Least(set) == CHOOSE i \in set : \A j \in set : i <= j

\* F applied to the value of v, with v evaluated once
Bind(v, F(_)) == CHOOSE r \in {F(x) : x \in {v}} : TRUE

\* str.find(sub, start): the lowest offset >= start where sub occurs, or -1
find(s, sub, start) ==
    LET hits == {i \in start..(Len(s) - Len(sub)) : StartsAt(s, sub, i)}
    IN  IF hits = {} THEN -1 ELSE Least(hits)

\* the `in` operator on strings
In(sub, s) == \E i \in 0..(Len(s) - Len(sub)) : StartsAt(s, sub, i)

startswith(s, prefix) == StartsAt(s, prefix, 0)

UpperCase == "ABCDEFGHIJKLMNOPQRSTUVWXYZÅÄÖ"
LowerCase == "abcdefghijklmnopqrstuvwxyzåäö"

LowerOf == [c \in {Char(UpperCase, i) : i \in 0..(Len(UpperCase) - 1)} |->
               Char(LowerCase, find(UpperCase, c, 0))]
UpperOf == [c \in {Char(LowerCase, i) : i \in 0..(Len(LowerCase) - 1)} |->
               Char(UpperCase, find(LowerCase, c, 0))]

LowerChar(c) == IF c \in DOMAIN LowerOf THEN LowerOf[c] ELSE c
UpperChar(c) == IF c \in DOMAIN UpperOf THEN UpperOf[c] ELSE c

\* str.lower(), by halves
RECURSIVE lower(_)
lower(s) ==
    IF Len(s) <= 1 THEN LowerChar(s)
    ELSE LET half == Len(s) \div 2
         IN  lower(Slice(s, 0, half)) \o lower(Slice(s, half, Len(s)))

\* str.upper(), by halves
RECURSIVE upper(_)
upper(s) ==
    IF Len(s) <= 1 THEN UpperChar(s)
    ELSE LET half == Len(s) \div 2
         IN  upper(Slice(s, 0, half)) \o upper(Slice(s, half, Len(s)))

\* str.strip() of spaces
strip(s) ==
    LET inked == {i \in 0..(Len(s) - 1) : Char(s, i) # " "}
    IN  IF inked = {} THEN ""
        ELSE Slice(s, Least(inked), (CHOOSE i \in inked : \A j \in inked : i >= j) + 1)

DigitChars == {"0", "1", "2", "3", "4", "5", "6", "7", "8", "9"}
DigitValue == [c \in DigitChars |-> find("0123456789", c, 0)]
IsDigit(c) == c \in DigitChars

\* the offset of the first digit at or after start, or -1
FindDigit(s, start) ==
    LET hits == {i \in start..(Len(s) - 1) : IsDigit(Char(s, i))}
    IN  IF hits = {} THEN -1 ELSE Least(hits)

\* the offset after the run of digits that starts at i
DigitRunEnd(s, i) ==
    LET stops == {j \in i..(Len(s) - 1) : ~IsDigit(Char(s, j))}
    IN  IF stops = {} THEN Len(s) ELSE Least(stops)

\* float(str) of a run of digits
RECURSIVE ParseNumber(_)
ParseNumber(s) ==
    IF s = "" THEN 0
    ELSE 10 * ParseNumber(Slice(s, 0, Len(s) - 1)) + DigitValue[Char(s, Len(s) - 1)]

\* f"{title} {content} {snippet}"; a value whose formatting raises is Unformattable
Unformattable == "<unformattable>"
CanFormat(title, content, snippet) == Unformattable \notin {title, content, snippet}
Format3(title, content, snippet) == title \o " " \o content \o " " \o snippet

(***************************************************************************)
(* Keyword lexicon and matcher (nlp/keywords.py).                          *)
(*                                                                         *)
(* The three vocabularies list the entries of the source lists that occur  *)
(* in some text over the modelled article vocabulary (Titles, Contents,    *)
(* Fragments, HaltedSnippet, LongPhraseTexts below), in source order; no   *)
(* other entry of the source lists is a substring of such a text, so no    *)
(* other entry can produce a match.                                        *)
(***************************************************************************)
POSITIVE_KEYWORDS == <<"överträffar förväntningarna", "höjer prognos", "rekordorderingång", "rekordorder", "köpråd">>

CATALYST_KEYWORDS == <<"kapitalmarknadsuppdatering", "bokslut", "Q3", "säkrar finansiering">>

NEGATIVE_KEYWORDS == <<"vinstvarning", "handelsstopp", "handelsstoppas">>

\* SwedishFinancialKeywords.__init__: the tables of the module-level analyzer
SwedishFinancialKeywords ==
    [POSITIVE_KEYWORDS |-> POSITIVE_KEYWORDS,
     NEGATIVE_KEYWORDS |-> NEGATIVE_KEYWORDS,
     CATALYST_KEYWORDS |-> CATALYST_KEYWORDS]

SeqContains(seq, x) == \E i \in 1..Len(seq) : seq[i] = x

Count(seq, x) == Cardinality({i \in 1..Len(seq) : seq[i] = x})

CONTEXT_WINDOW == 50

Max2(a, b) == IF a >= b THEN a ELSE b
Min2(a, b) == IF a <= b THEN a ELSE b

\* _calculate_keyword_score with `if` for `elif`: both position bonuses add up
_calculate_keyword_score_cumulative(self, keyword, position, text_length) ==
    LET positionBonus ==
            (IF 10 * position < text_length THEN 3 ELSE 0)
            + (IF 10 * position < 3 * text_length THEN 2 ELSE 0)
        lengthBonus ==
            IF Len(keyword) > 20 THEN 2
            ELSE IF Len(keyword) > 10 THEN 1
            ELSE 0
        categoryBonus ==
            IF SeqContains(self.CATALYST_KEYWORDS, keyword) THEN 1 ELSE 0
    IN  RMin(One, Tenths(5 + positionBonus + lengthBonus + categoryBonus))

\* _calculate_keyword_score(keyword, position, text_length)
_calculate_keyword_score(self, keyword, position, text_length) ==
    LET positionBonus ==
            IF 10 * position < text_length THEN 3
            ELSE IF 10 * position < 3 * text_length THEN 2
            ELSE 0
        lengthBonus ==
            IF Len(keyword) > 20 THEN 2
            ELSE IF Len(keyword) > 10 THEN 1
            ELSE 0
        categoryBonus ==
            IF SeqContains(self.CATALYST_KEYWORDS, keyword) THEN 1 ELSE 0
    IN  RMin(One, Tenths(5 + positionBonus + lengthBonus + categoryBonus))

KeywordMatch(self, text, keyword, category, pos) ==
    [keyword  |-> keyword,
     category |-> category,
     position |-> pos,
     context  |-> Slice(text, Max2(0, pos - CONTEXT_WINDOW),
                        Min2(Len(text), pos + Len(keyword) + CONTEXT_WINDOW)),
     score    |-> _calculate_keyword_score(self, keyword, pos, Len(text))]

\* the while-loop of _find_keywords: every occurrence of one keyword from start on
RECURSIVE Occurrences(_, _, _, _, _)
Occurrences(self, text, keyword, category, start) ==
    LET pos == find(text, lower(keyword), start)
    IN  IF pos = -1 THEN <<>>
        ELSE <<KeywordMatch(self, text, keyword, category, pos)>>
             \o Occurrences(self, text, keyword, category, pos + 1)

\* _find_keywords(text, keywords, category): keywords in list order
RECURSIVE _find_keywords(_, _, _, _)
_find_keywords(self, text, keywords, category) ==
    IF keywords = <<>> THEN <<>>
    ELSE (IF In(lower(Head(keywords)), text)
          THEN Occurrences(self, text, Head(keywords), category, 0)
          ELSE <<>>)
         \o _find_keywords(self, text, Tail(keywords), category)

\* extract_keywords(text)
extract_keywords(self, text) ==
    IF text = ""
    THEN [positive |-> <<>>, negative |-> <<>>, catalyst |-> <<>>]
    ELSE Bind(lower(text), LAMBDA text_lower :
             [positive |-> _find_keywords(self, text_lower, self.POSITIVE_KEYWORDS, "positive"),
              negative |-> _find_keywords(self, text_lower, self.NEGATIVE_KEYWORDS, "negative"),
              catalyst |-> _find_keywords(self, text_lower, self.CATALYST_KEYWORDS, "catalyst")])

extract_positive_keywords(self, title, content, snippet) ==
    extract_keywords(self, strip(Format3(title, content, snippet))).positive

extract_negative_keywords(self, title, content, snippet) ==
    extract_keywords(self, strip(Format3(title, content, snippet))).negative

extract_catalyst_keywords(self, title, content, snippet) ==
    extract_keywords(self, strip(Format3(title, content, snippet))).catalyst

Scores(matches) == [i \in 1..Len(matches) |-> matches[i].score]

\* calculate_sentiment_score(positive_keywords, negative_keywords)
calculate_sentiment_score(positive_keywords, negative_keywords) ==
    RSub(RSum(Scores(positive_keywords)), RSum(Scores(negative_keywords)))

\* calculate_relevance_score(positive_keywords, negative_keywords, catalyst_keywords)
calculate_relevance_score(positive_keywords, negative_keywords, catalyst_keywords) ==
    LET total_keywords == Len(positive_keywords) + Len(negative_keywords) + Len(catalyst_keywords)
        total_score == RAdd(RSum(Scores(positive_keywords)),
                            RAdd(RSum(Scores(negative_keywords)), RSum(Scores(catalyst_keywords))))
    IN  IF total_keywords = 0 THEN Zero
        ELSE LET avg_strength == RDiv(total_score, R(total_keywords, 1))
                 quantity_bonus == RMin(Tenths(3), R(total_keywords * 5, 100))
                 catalyst_bonus == RMin(Tenths(2), R(Len(catalyst_keywords), 10))
             IN  RMin(One, RAdd(avg_strength, RAdd(quantity_bonus, catalyst_bonus)))

AnyIn(words, s) == \E i \in 1..Len(words) : In(words[i], s)

\* the if/elif chain of classify_categories for one matched keyword; "" when no branch applies
KeywordCategory(keyword) ==
    LET keyword_lower == lower(keyword)
    IN  IF AnyIn(<<"resultat", "vinst", "förlust", "rapport", "bokslut">>, keyword_lower) THEN "earnings"
        ELSE IF AnyIn(<<"order", "kontrakt", "avtal", "leverans">>, keyword_lower) THEN "orders"
        ELSE IF AnyIn(<<"prognos", "guidning", "utskter", "mål">>, keyword_lower) THEN "guidance"
        ELSE IF AnyIn(<<"godkännande", "regulatorisk", "tillstånd">>, keyword_lower) THEN "regulatory"
        ELSE IF AnyIn(<<"börs", "handel", "kurs", "index">>, keyword_lower) THEN "market"
        ELSE IF AnyIn(<<"emission", "finansiering", "lån", "kredit">>, keyword_lower) THEN "financial"
        ELSE IF AnyIn(<<"sektor", "bransch", "trend">>, keyword_lower) THEN "industry"
        ELSE ""

\* list(categories) of classify_categories before ordering: the set of categories touched
KeywordCategories(positive_keywords, catalyst_keywords) ==
    LET matches == positive_keywords \o catalyst_keywords
    IN  {KeywordCategory(matches[i].keyword) : i \in 1..Len(matches)} \ {""}

(***************************************************************************)
(* Signal detector (nlp/advanced_analysis.py).                             *)
(***************************************************************************)
\* A pattern  l1.*?l2.*?(\d+).*?(t1|t2)  is [lits |-> <<l1, l2>>, tail |-> <<t1, t2>>]
quantitative_patterns ==
    << [metric |-> "revenue_growth", title |-> "Revenue Growth",
        patterns |-> << [lits |-> <<"intäkter">>, tail |-> <<"procent">>],
                        [lits |-> <<"omsättning", "ökade">>, tail |-> <<"%">>],
                        [lits |-> <<"försäljning", "upp">>, tail |-> <<"procent">>],
                        [lits |-> <<"revenue", "grew">>, tail |-> <<"%">>] >>,
        threshold |-> 10, weight |-> Tenths(8)],
       [metric |-> "margin_improvement", title |-> "Margin Improvement",
        patterns |-> << [lits |-> <<"marginal", "förbättrades">>, tail |-> <<>>],
                        [lits |-> <<"lönsamhet", "ökade">>, tail |-> <<>>],
                        [lits |-> <<"margin", "improved">>, tail |-> <<>>] >>,
        threshold |-> 2, weight |-> Tenths(7)],
       [metric |-> "large_contracts", title |-> "Large Contracts",
        patterns |-> << [lits |-> <<"kontrakt", "värt">>, tail |-> <<"miljard", "miljarder">>],
                        [lits |-> <<"order">>, tail |-> <<"miljard", "miljarder">>],
                        [lits |-> <<"avtal">>, tail |-> <<"miljard", "miljarder">>] >>,
        threshold |-> 1, weight |-> Tenths(9)],
       [metric |-> "market_share", title |-> "Market Share",
        patterns |-> << [lits |-> <<"marknadsandel">>, tail |-> <<"procent">>],
                        [lits |-> <<"market", "share">>, tail |-> <<"%">>] >>,
        threshold |-> 25, weight |-> Tenths(6)] >>

competitive_patterns ==
    << [type |-> "patents", label |-> "patents",
        keywords |-> <<"patent", "patentansökan", "immaterialrätt", "intellectual property",
                       "teknisk genombrott", "innovation", "forskningsresultat">>],
       [type |-> "regulatory_moat", label |-> "regulatory moat",
        keywords |-> <<"regulatoriskt godkännande", "licens", "certifiering", "FDA-godkännande",
                       "CE-märkning", "regulatory approval", "compliance">>],
       [type |-> "exclusive_deals", label |-> "exclusive deals",
        keywords |-> <<"exklusiv", "exclusive", "ensamrätt", "partnerskap", "strategiskt samarbete">>],
       [type |-> "barriers_to_entry", label |-> "barriers to entry",
        keywords |-> <<"barriärer", "svår att kopiera", "unique", "unik position", "först i världen">>] >>

management_patterns ==
    << [type |-> "insider_buying", label |-> "insider buying", strength |-> Tenths(8),
        keywords |-> <<"vd köper aktier", "ledning köper", "insider buying", "management köp">>],
       [type |-> "leadership_change", label |-> "leadership change", strength |-> Tenths(6),
        keywords |-> <<"ny vd", "new ceo", "ledningsbyte", "management change">>],
       [type |-> "strategic_vision", label |-> "strategic vision", strength |-> Tenths(5),
        keywords |-> <<"strategisk plan", "vision", "transformation", "omstrukturering">>] >>

timing_patterns ==
    << [type |-> "earnings_surprise", label |-> "earnings surprise", strength |-> Tenths(9),
        keywords |-> <<"överträffade förväntningarna", "beat expectations", "bättre än väntat">>],
       [type |-> "guidance_raise", label |-> "guidance raise", strength |-> Tenths(8),
        keywords |-> <<"höjer prognos", "raises guidance", "uppjusterar", "förbättrad prognos">>],
       [type |-> "analyst_upgrades", label |-> "analyst upgrades", strength |-> Tenths(7),
        keywords |-> <<"uppgraderad", "köpråd", "buy rating", "target price raised">>],
       [type |-> "institutional_buying", label |-> "institutional buying", strength |-> Tenths(6),
        keywords |-> <<"institutionella investerare", "institutional buying", "fonder köper">>] >>

tailwind_patterns ==
    << [type |-> "sector_rotation", label |-> "sector rotation", strength |-> Tenths(6),
        keywords |-> <<"sektorrotation", "sector rotation", "branschtrend">>],
       [type |-> "regulatory_tailwinds", label |-> "regulatory tailwinds", strength |-> Tenths(6),
        keywords |-> <<"gynnsam reglering", "regulatory support", "statligt stöd">>],
       [type |-> "demographic_trends", label |-> "demographic trends", strength |-> Tenths(6),
        keywords |-> <<"demografisk trend", "aging population", "urbanisering">>],
       [type |-> "technology_adoption", label |-> "technology adoption", strength |-> Tenths(6),
        keywords |-> <<"teknisk adoption", "digital transformation", "AI adoption">>] >>

value_patterns ==
    << [type |-> "undervalued", label |-> "undervalued", strength |-> Tenths(7),
        keywords |-> <<"undervärderad", "undervalued", "lågt värderad", "rabatt">>],
       [type |-> "asset_value", label |-> "asset value", strength |-> Tenths(6),
        keywords |-> <<"tillgångsvärde", "asset value", "bokfört värde", "substansvärde">>],
       [type |-> "cash_rich", label |-> "cash rich", strength |-> Tenths(8),
        keywords |-> <<"kassarik", "cash rich", "stark balansräkning", "skuldfri">>] >>

risk_keywords ==
    <<"varning", "warning", "förlust", "loss", "nedgång", "decline",
      "konkurrens", "competition", "reglering", "regulation threat",
      "skulder", "debt", "lawsuit", "stämning", "investigation">>

\* AdvancedAnalyzer._setup_patterns: the tables of the module-level analyzer
AdvancedAnalyzer ==
    [quantitative_patterns |-> quantitative_patterns,
     competitive_patterns  |-> competitive_patterns,
     management_patterns   |-> management_patterns,
     timing_patterns       |-> timing_patterns,
     tailwind_patterns     |-> tailwind_patterns,
     value_patterns        |-> value_patterns]

AdvancedSignal(signal_type, strength, explanation, confidence, timeframe) ==
    [signal_type |-> signal_type, strength |-> strength, explanation |-> explanation,
     confidence |-> confidence, timeframe |-> timeframe]

\* the end offset of the lazily skipped literals of a pattern from offset from on, or -1
RECURSIVE SkipLiterals(_, _, _)
SkipLiterals(text, lits, from) ==
    IF lits = <<>> THEN from
    ELSE LET at == find(text, Head(lits), from)
         IN  IF at = -1 THEN -1
             ELSE SkipLiterals(text, Tail(lits), at + Len(Head(lits)))

\* the end offset of the first alternative that matches at the lowest offset >= from, or -1
SkipToAlternative(text, alts, from) ==
    LET hits == {i \in from..Len(text) : \E k \in 1..Len(alts) : StartsAt(text, alts[k], i)}
    IN  IF hits = {} THEN -1
        ELSE LET at == Least(hits)
                 first == Least({k \in 1..Len(alts) : StartsAt(text, alts[k], at)})
             IN  at + Len(alts[first])

\* re.finditer(pattern, text): group(1) of the successive non-overlapping matches
RECURSIVE finditer(_, _, _)
finditer(pattern, text, from) ==
    LET afterLits == SkipLiterals(text, pattern.lits, from)
        digit     == IF afterLits = -1 THEN -1 ELSE FindDigit(text, afterLits)
        digitEnd  == DigitRunEnd(text, digit)
        matchEnd  == IF pattern.tail = <<>> THEN digitEnd
                     ELSE SkipToAlternative(text, pattern.tail, digitEnd)
    IN  IF afterLits = -1 \/ digit = -1 \/ matchEnd = -1 THEN <<>>
        ELSE <<Slice(text, digit, digitEnd)>> \o finditer(pattern, text, matchEnd)

RECURSIVE Concat(_)
Concat(seqs) == IF seqs = <<>> THEN <<>> ELSE Head(seqs) \o Concat(Tail(seqs))

\* QuantitativeSignals with `value > config['threshold']` for `>=`
QuantitativeSignals_strict(config, captures) ==
    Concat([i \in 1..Len(captures) |->
        LET value == ParseNumber(captures[i])
        IN  IF value > config.threshold
            THEN LET strength == RMin(One, R(value, config.threshold * 2))
                 IN  <<AdvancedSignal("quantitative_" \o config.metric,
                                      RMul(strength, config.weight),
                                      config.title \o ": " \o ToString(value) \o ".0%+ detected",
                                      Tenths(8), "short-term")>>
            ELSE <<>>])

\* the signals of one metric for the captured numbers of one pattern, in match order
QuantitativeSignals(config, captures) ==
    Concat([i \in 1..Len(captures) |->
        LET value == ParseNumber(captures[i])
        IN  IF value >= config.threshold
            THEN LET strength == RMin(One, R(value, config.threshold * 2))
                 IN  <<AdvancedSignal("quantitative_" \o config.metric,
                                      RMul(strength, config.weight),
                                      config.title \o ": " \o ToString(value) \o ".0%+ detected",
                                      Tenths(8), "short-term")>>
            ELSE <<>>])

\* _analyze_quantitative(text)
_analyze_quantitative(self, text) ==
    Concat([m \in 1..Len(self.quantitative_patterns) |->
        LET config == self.quantitative_patterns[m]
        IN  Concat([p \in 1..Len(config.patterns) |->
                QuantitativeSignals(config, finditer(config.patterns[p], text, 0))])])

CountIn(keywords, text) == Cardinality({i \in 1..Len(keywords) : In(keywords[i], text)})

\* _analyze_competitive_advantage(text)
_analyze_competitive_advantage(self, text) ==
    Concat([t \in 1..Len(self.competitive_patterns) |->
        LET entry   == self.competitive_patterns[t]
            matches == CountIn(entry.keywords, text)
        IN  IF matches > 0
            THEN <<AdvancedSignal("competitive_" \o entry.type,
                                  RMul(RMin(One, R(matches, 3)), Tenths(7)),
                                  "Competitive advantage: " \o entry.label \o " indicators found",
                                  Tenths(6), "long-term")>>
            ELSE <<>>])

\* the common shape of the presence-only families
PresenceSignals(patterns, prefix, explain, confidence, timeframe, text) ==
    Concat([t \in 1..Len(patterns) |->
        IF AnyIn(patterns[t].keywords, text)
        THEN <<AdvancedSignal(prefix \o patterns[t].type, patterns[t].strength,
                              explain \o patterns[t].label, confidence, timeframe)>>
        ELSE <<>>])

\* _analyze_management(text)
_analyze_management(self, text) ==
    PresenceSignals(self.management_patterns, "management_", "Management signal: ",
                    Tenths(7), "medium-term", text)

\* _analyze_timing(text)
_analyze_timing(self, text) ==
    PresenceSignals(self.timing_patterns, "timing_", "Timing signal: ",
                    Tenths(8), "immediate", text)

\* _analyze_tailwinds(text)
_analyze_tailwinds(self, text) ==
    PresenceSignals(self.tailwind_patterns, "tailwind_", "Tailwind: ",
                    Tenths(5), "long-term", text)

\* _analyze_value(text)
_analyze_value(self, text) ==
    PresenceSignals(self.value_patterns, "value_", "Value signal: ",
                    Tenths(6), "medium-term", text)

RISK_NORMALIZER == 3

\* _analyze_risks with the sign of the strength left out
_analyze_risks_unsigned(text) ==
    LET risk_count == CountIn(risk_keywords, text)
    IN  IF risk_count > 0
        THEN <<AdvancedSignal("risk_factors",
                              RMin(One, R(risk_count, RISK_NORMALIZER)),
                              "Risk factors detected: " \o ToString(risk_count) \o " indicators",
                              Tenths(7), "immediate")>>
        ELSE <<>>

\* _analyze_risks appending inside the loop over risk_keywords: one signal per indicator
_analyze_risks_per_keyword(text) ==
    Concat([k \in 1..Len(risk_keywords) |->
        IF In(risk_keywords[k], text)
        THEN <<AdvancedSignal("risk_factors", RNeg(RMin(One, R(1, RISK_NORMALIZER))),
                              "Risk factors detected: 1 indicators", Tenths(7), "immediate")>>
        ELSE <<>>])

\* _analyze_risks(text)
_analyze_risks(text) ==
    LET risk_count == CountIn(risk_keywords, text)
    IN  IF risk_count > 0
        THEN <<AdvancedSignal("risk_factors",
                              RNeg(RMin(One, R(risk_count, RISK_NORMALIZER))),
                              "Risk factors detected: " \o ToString(risk_count) \o " indicators",
                              Tenths(7), "immediate")>>
        ELSE <<>>

\* analyze_advanced_signals(title, content, snippet)
analyze_advanced_signals(self, title, content, snippet) ==
    Bind(lower(Format3(title, content, snippet)), LAMBDA full_text :
        _analyze_quantitative(self, full_text)
        \o _analyze_competitive_advantage(self, full_text)
        \o _analyze_management(self, full_text)
        \o _analyze_timing(self, full_text)
        \o _analyze_tailwinds(self, full_text)
        \o _analyze_value(self, full_text)
        \o _analyze_risks(full_text))

\* calculate_advanced_score with weight = 1 in its first pass: a plain average of strength
calculate_advanced_score_unweighted(signals) ==
    IF signals = <<>>
    THEN [advanced_score |-> Zero, confidence |-> Zero, signal_count |-> 0,
          risk_adjusted_score |-> Zero]
    ELSE LET IsRisk(sg) == RLt(sg.strength, Zero)
             NotRisk(sg) == ~IsRisk(sg)
             risks == SelectSeq(signals, IsRisk)
             others == SelectSeq(signals, NotRisk)
             risk_adjustment ==
                 RSum([i \in 1..Len(risks) |-> RMul(RAbs(risks[i].strength), risks[i].confidence)])
             advanced_score ==
                 IF others # <<>>
                 THEN RDiv(RSum([i \in 1..Len(others) |-> others[i].strength]), R(Len(others), 1))
                 ELSE Zero
             avg_confidence ==
                 RDiv(RSum([i \in 1..Len(signals) |-> signals[i].confidence]), R(Len(signals), 1))
         IN  [advanced_score |-> advanced_score, confidence |-> avg_confidence,
              signal_count |-> Len(signals),
              risk_adjusted_score |-> RMax(Zero, RSub(advanced_score, risk_adjustment)),
              risk_factors |-> risk_adjustment]

\* calculate_advanced_score(signals); the empty list returns a dict without 'risk_factors'
calculate_advanced_score(signals) ==
    IF signals = <<>>
    THEN [advanced_score |-> Zero, confidence |-> Zero, signal_count |-> 0,
          risk_adjusted_score |-> Zero]
    ELSE LET IsRisk(sg) == RLt(sg.strength, Zero)
             NotRisk(sg) == ~IsRisk(sg)
             risks == SelectSeq(signals, IsRisk)
             others == SelectSeq(signals, NotRisk)
             risk_adjustment ==
                 RSum([i \in 1..Len(risks) |-> RMul(RAbs(risks[i].strength), risks[i].confidence)])
             total_score ==
                 RSum([i \in 1..Len(others) |-> RMul(others[i].strength, others[i].confidence)])
             total_weight == RSum([i \in 1..Len(others) |-> others[i].confidence])
             advanced_score ==
                 IF RGt(total_weight, Zero) THEN RDiv(total_score, total_weight) ELSE Zero
             risk_adjusted_score == RMax(Zero, RSub(advanced_score, risk_adjustment))
             avg_confidence ==
                 RDiv(RSum([i \in 1..Len(signals) |-> signals[i].confidence]), R(Len(signals), 1))
         IN  [advanced_score |-> advanced_score, confidence |-> avg_confidence,
              signal_count |-> Len(signals), risk_adjusted_score |-> risk_adjusted_score,
              risk_factors |-> risk_adjustment]

\* signal_type.split('_')[0]
SignalCategory(signal_type) ==
    LET at == find(signal_type, "_", 0)
    IN  IF at = -1 THEN signal_type ELSE Slice(signal_type, 0, at)

\* str.title() of a lower-case word
Title(word) == IF word = "" THEN "" ELSE UpperChar(Char(word, 0)) \o Slice(word, 1, Len(word))

RECURSIVE Join(_, _)
Join(sep, parts) ==
    IF parts = <<>> THEN ""
    ELSE IF Len(parts) = 1 THEN parts[1]
    ELSE parts[1] \o sep \o Join(sep, Tail(parts))

\* the keys of signal_groups in insertion order
RECURSIVE FirstSeen(_, _)
FirstSeen(cats, seen) ==
    IF cats = <<>> THEN <<>>
    ELSE IF Head(cats) \in seen THEN FirstSeen(Tail(cats), seen)
    ELSE <<Head(cats)>> \o FirstSeen(Tail(cats), seen \cup {Head(cats)})

\* get_signal_summary(signals)
get_signal_summary(signals) ==
    IF signals = <<>> THEN "No advanced signals detected"
    ELSE LET groups == FirstSeen([i \in 1..Len(signals) |-> SignalCategory(signals[i].signal_type)], {})
             Strong(category) ==
                 Cardinality({i \in 1..Len(signals) :
                     /\ SignalCategory(signals[i].signal_type) = category
                     /\ RGt(signals[i].strength, Tenths(6))})
             summary_parts ==
                 Concat([g \in 1..Len(groups) |->
                     IF Strong(groups[g]) > 0
                     THEN <<Title(groups[g]) \o "(" \o ToString(Strong(groups[g])) \o ")">>
                     ELSE <<>>])
         IN  IF summary_parts # <<>> THEN Join(" | ", summary_parts)
             ELSE "Weak signals detected"

(***************************************************************************)
(* Score fusion (nlp/classify.py).                                         *)
(***************************************************************************)
\* the iteration order of a set of str is fixed within one process and varies between
\* processes with the interpreter's string-hash seed; a seed is modelled by the total
\* order it induces on the category names
HashOrders ==
    << <<"earnings", "orders", "guidance", "regulatory", "market", "financial", "industry",
         "financial_metrics", "competitive_advantage", "governance", "market_timing",
         "value_opportunity">>,
       <<"value_opportunity", "market_timing", "governance", "competitive_advantage",
         "financial_metrics", "industry", "financial", "market", "regulatory", "guidance",
         "orders", "earnings">>,
       <<"orders", "financial_metrics", "guidance", "earnings", "market_timing", "regulatory",
         "financial", "value_opportunity", "industry", "governance", "market",
         "competitive_advantage">> >>

HashSeeds == 1..Len(HashOrders)

\* list(set_of_str) under a hash seed
ListOfSet(seed, set) ==
    LET order == HashOrders[seed]
        Member(x) == x \in set
    IN  SelectSeq(order, Member)

\* classify_categories(positive_keywords, catalyst_keywords)
classify_categories(seed, positive_keywords, catalyst_keywords) ==
    ListOfSet(seed, KeywordCategories(positive_keywords, catalyst_keywords))

signal_weights ==
    [quantitative |-> Tenths(3), timing |-> R(25, 100), competitive |-> Tenths(2),
     management |-> R(15, 100), tailwind |-> R(5, 100), value |-> R(5, 100)]

DEFAULT_SIGNAL_WEIGHT == Tenths(1)

Positive(signals) ==
    LET Pos(sg) == RGt(sg.strength, Zero)
    IN  SelectSeq(signals, Pos)

\* _calculate_relevance_score with the two weights exchanged: keywords 0.6, signals 0.4
_calculate_relevance_score_keyword_heavy(positive_keywords, negative_keywords, catalyst_keywords, advanced_signals) ==
    LET keyword_relevance ==
            RMul(calculate_relevance_score(positive_keywords, negative_keywords,
                                           catalyst_keywords), Tenths(6))
        used == Positive(advanced_signals)
        Weight(sg) ==
            LET signal_category == SignalCategory(sg.signal_type)
            IN  IF signal_category \in DOMAIN signal_weights
                THEN signal_weights[signal_category] ELSE DEFAULT_SIGNAL_WEIGHT
        weighted_score ==
            RSum([i \in 1..Len(used) |->
                    RMul(RMul(used[i].strength, Weight(used[i])), used[i].confidence)])
        total_weight ==
            RSum([i \in 1..Len(used) |-> RMul(Weight(used[i]), used[i].confidence)])
        signal_relevance ==
            IF advanced_signals # <<>> /\ RGt(total_weight, Zero)
            THEN RMul(RDiv(weighted_score, total_weight), Tenths(4))
            ELSE Zero
    IN  RMin(One, RAdd(keyword_relevance, signal_relevance))

\* _calculate_relevance_score(positive, negative, catalyst, advanced_signals)
_calculate_relevance_score(positive_keywords, negative_keywords, catalyst_keywords, advanced_signals) ==
    LET keyword_relevance ==
            RMul(calculate_relevance_score(positive_keywords, negative_keywords,
                                           catalyst_keywords), Tenths(4))
        used == Positive(advanced_signals)
        Weight(sg) ==
            LET signal_category == SignalCategory(sg.signal_type)
            IN  IF signal_category \in DOMAIN signal_weights
                THEN signal_weights[signal_category] ELSE DEFAULT_SIGNAL_WEIGHT
        weighted_score ==
            RSum([i \in 1..Len(used) |->
                    RMul(RMul(used[i].strength, Weight(used[i])), used[i].confidence)])
        total_weight ==
            RSum([i \in 1..Len(used) |-> RMul(Weight(used[i]), used[i].confidence)])
        signal_relevance ==
            IF advanced_signals # <<>> /\ RGt(total_weight, Zero)
            THEN RMul(RDiv(weighted_score, total_weight), Tenths(6))
            ELSE Zero
    IN  RMin(One, RAdd(keyword_relevance, signal_relevance))

Exists(seq, Test(_)) == \E i \in 1..Len(seq) : Test(seq[i])

IsImmediateSignal(sg) == sg.timeframe = "immediate" /\ RGt(sg.strength, Tenths(6))
IsShortTermSignal(sg) == sg.timeframe = "short-term" /\ RGt(sg.strength, Tenths(5))
IsHighImpactSignal(sg) ==
    /\ RGt(sg.strength, Tenths(7))
    /\ (startswith(sg.signal_type, "quantitative_") \/ startswith(sg.signal_type, "timing_"))

\* _determine_enhanced_impact_level with "medium" in the final else branch
_determine_enhanced_impact_level_else_medium(relevance_score, sentiment_score, catalyst_keywords, advanced_signals) ==
    IF Exists(advanced_signals, IsHighImpactSignal) \/ Exists(advanced_signals, IsImmediateSignal)
    THEN "high"
    ELSE IF /\ RGt(relevance_score, Tenths(7))
            /\ (RGt(sentiment_score, Tenths(3)) \/ Len(catalyst_keywords) > 1)
    THEN "high"
    ELSE "medium"

\* _determine_enhanced_impact_level with the "medium" test ahead of the relevance test
\* for "high"
_determine_enhanced_impact_level_medium_first(relevance_score, sentiment_score, catalyst_keywords, advanced_signals) ==
    IF Exists(advanced_signals, IsHighImpactSignal) \/ Exists(advanced_signals, IsImmediateSignal)
    THEN "high"
    ELSE IF /\ RGt(relevance_score, Tenths(4))
            /\ (RGt(sentiment_score, Tenths(1)) \/ Len(catalyst_keywords) > 0)
    THEN "medium"
    ELSE IF /\ RGt(relevance_score, Tenths(7))
            /\ (RGt(sentiment_score, Tenths(3)) \/ Len(catalyst_keywords) > 1)
    THEN "high"
    ELSE "low"

\* _determine_enhanced_impact_level without the immediate_signals test
_determine_enhanced_impact_level_without_immediate(relevance_score, sentiment_score, catalyst_keywords, advanced_signals) ==
    IF Exists(advanced_signals, IsHighImpactSignal)
    THEN "high"
    ELSE IF /\ RGt(relevance_score, Tenths(7))
            /\ (RGt(sentiment_score, Tenths(3)) \/ Len(catalyst_keywords) > 1)
    THEN "high"
    ELSE IF /\ RGt(relevance_score, Tenths(4))
            /\ (RGt(sentiment_score, Tenths(1)) \/ Len(catalyst_keywords) > 0)
    THEN "medium"
    ELSE "low"

\* _determine_enhanced_impact_level(relevance, sentiment, catalyst_keywords, advanced_signals)
_determine_enhanced_impact_level(relevance_score, sentiment_score, catalyst_keywords, advanced_signals) ==
    IF Exists(advanced_signals, IsHighImpactSignal) \/ Exists(advanced_signals, IsImmediateSignal)
    THEN "high"
    ELSE IF /\ RGt(relevance_score, Tenths(7))
            /\ (RGt(sentiment_score, Tenths(3)) \/ Len(catalyst_keywords) > 1)
    THEN "high"
    ELSE IF /\ RGt(relevance_score, Tenths(4))
            /\ (RGt(sentiment_score, Tenths(1)) \/ Len(catalyst_keywords) > 0)
    THEN "medium"
    ELSE "low"

\* the if/elif chain of _classify_enhanced_categories for one signal; "" when none applies
SignalCategoryTag(sg) ==
    IF ~RGt(sg.strength, Tenths(5)) THEN ""
    ELSE IF In("quantitative", sg.signal_type) THEN "financial_metrics"
    ELSE IF In("competitive", sg.signal_type) THEN "competitive_advantage"
    ELSE IF In("management", sg.signal_type) THEN "governance"
    ELSE IF In("timing", sg.signal_type) THEN "market_timing"
    ELSE IF In("value", sg.signal_type) THEN "value_opportunity"
    ELSE ""

MAX_CATEGORIES == 5

Prefix(seq, n) == SubSeq(seq, 1, Min2(n, Len(seq)))

\* _classify_enhanced_categories returning all_categories without the [:5] slice
_classify_enhanced_categories_untruncated(seed, positive_keywords, catalyst_keywords, advanced_signals) ==
    LET categories == classify_categories(seed, positive_keywords, catalyst_keywords)
        signal_categories ==
            {SignalCategoryTag(advanced_signals[i]) : i \in 1..Len(advanced_signals)} \ {""}
    IN  ListOfSet(seed, {categories[i] : i \in 1..Len(categories)} \cup signal_categories)

\* _classify_enhanced_categories(positive_keywords, catalyst_keywords, advanced_signals)
_classify_enhanced_categories(seed, positive_keywords, catalyst_keywords, advanced_signals) ==
    LET categories == classify_categories(seed, positive_keywords, catalyst_keywords)
        signal_categories ==
            {SignalCategoryTag(advanced_signals[i]) : i \in 1..Len(advanced_signals)} \ {""}
        all_categories ==
            ListOfSet(seed, {categories[i] : i \in 1..Len(categories)} \cup signal_categories)
    IN  Prefix(all_categories, MAX_CATEGORIES)

\* _get_recommendation with the short-term test ahead of the immediate test
_get_recommendation_short_first(final_score, advanced_signals) ==
    LET recommendation ==
            IF RGe(final_score, Tenths(8)) THEN "STRONG BUY"
            ELSE IF RGe(final_score, Tenths(6)) THEN "BUY"
            ELSE IF RGe(final_score, Tenths(4)) THEN "WATCH"
            ELSE IF RGe(final_score, Tenths(2)) THEN "WEAK SIGNAL"
            ELSE "IGNORE"
        timeframe ==
            IF Exists(advanced_signals, IsShortTermSignal) THEN "Short-term (1-4 weeks)"
            ELSE IF Exists(advanced_signals, IsImmediateSignal) THEN "Immediate (1-3 days)"
            ELSE IF RGe(final_score, Tenths(6)) THEN "Medium-term (1-3 months)"
            ELSE "Long-term (3+ months)"
    IN  <<recommendation, timeframe>>

\* _get_recommendation with > in place of >= in the recommendation chain
_get_recommendation_exclusive(final_score, advanced_signals) ==
    LET recommendation ==
            IF RGt(final_score, Tenths(8)) THEN "STRONG BUY"
            ELSE IF RGt(final_score, Tenths(6)) THEN "BUY"
            ELSE IF RGt(final_score, Tenths(4)) THEN "WATCH"
            ELSE IF RGt(final_score, Tenths(2)) THEN "WEAK SIGNAL"
            ELSE "IGNORE"
        timeframe ==
            IF Exists(advanced_signals, IsImmediateSignal) THEN "Immediate (1-3 days)"
            ELSE IF Exists(advanced_signals, IsShortTermSignal) THEN "Short-term (1-4 weeks)"
            ELSE IF RGe(final_score, Tenths(6)) THEN "Medium-term (1-3 months)"
            ELSE "Long-term (3+ months)"
    IN  <<recommendation, timeframe>>

\* _get_recommendation(final_score, advanced_signals)
_get_recommendation(final_score, advanced_signals) ==
    LET recommendation ==
            IF RGe(final_score, Tenths(8)) THEN "STRONG BUY"
            ELSE IF RGe(final_score, Tenths(6)) THEN "BUY"
            ELSE IF RGe(final_score, Tenths(4)) THEN "WATCH"
            ELSE IF RGe(final_score, Tenths(2)) THEN "WEAK SIGNAL"
            ELSE "IGNORE"
        timeframe ==
            IF Exists(advanced_signals, IsImmediateSignal) THEN "Immediate (1-3 days)"
            ELSE IF Exists(advanced_signals, IsShortTermSignal) THEN "Short-term (1-4 weeks)"
            ELSE IF RGe(final_score, Tenths(6)) THEN "Medium-term (1-3 months)"
            ELSE "Long-term (3+ months)"
    IN  <<recommendation, timeframe>>

\* _calculate_final_score without the risk penalty
_calculate_final_score_unpenalised(relevance_score, sentiment_score, advanced_metrics, advanced_signals) ==
    LET final_score ==
            RMax(Zero, RAdd(RMul(sentiment_score, Tenths(3)),
                            RAdd(RMul(relevance_score, Tenths(2)),
                                 RMul(advanced_metrics.risk_adjusted_score, Tenths(4)))))
        rec == _get_recommendation(final_score, advanced_signals)
    IN  <<final_score, rec[1], rec[2]>>

\* _calculate_final_score without the max(0.0, ...) clamp
_calculate_final_score_unclamped(relevance_score, sentiment_score, advanced_metrics, advanced_signals) ==
    LET risk_factors ==
            IF "risk_factors" \in DOMAIN advanced_metrics
            THEN advanced_metrics.risk_factors ELSE Zero
        final_score ==
            RSub(RAdd(RMul(sentiment_score, Tenths(3)),
                      RAdd(RMul(relevance_score, Tenths(2)),
                           RMul(advanced_metrics.risk_adjusted_score, Tenths(4)))),
                 RMul(risk_factors, Tenths(1)))
        rec == _get_recommendation(final_score, advanced_signals)
    IN  <<final_score, rec[1], rec[2]>>

\* _calculate_final_score with advanced_weight = 0.6 for 0.4
_calculate_final_score_signal_heavy(relevance_score, sentiment_score, advanced_metrics, advanced_signals) ==
    LET keyword_component == RMul(sentiment_score, Tenths(3))
        relevance_component == RMul(relevance_score, Tenths(2))
        advanced_component == RMul(advanced_metrics.risk_adjusted_score, Tenths(6))
        risk_factors ==
            IF "risk_factors" \in DOMAIN advanced_metrics
            THEN advanced_metrics.risk_factors ELSE Zero
        risk_penalty == RMul(risk_factors, Tenths(1))
        final_score ==
            RMax(Zero, RSub(RAdd(keyword_component, RAdd(relevance_component, advanced_component)),
                            risk_penalty))
        rec == _get_recommendation(final_score, advanced_signals)
    IN  <<final_score, rec[1], rec[2]>>

\* _calculate_final_score(relevance, sentiment, advanced_metrics, advanced_signals)
_calculate_final_score(relevance_score, sentiment_score, advanced_metrics, advanced_signals) ==
    LET keyword_component == RMul(sentiment_score, Tenths(3))
        relevance_component == RMul(relevance_score, Tenths(2))
        advanced_component == RMul(advanced_metrics.risk_adjusted_score, Tenths(4))
        risk_factors ==
            IF "risk_factors" \in DOMAIN advanced_metrics
            THEN advanced_metrics.risk_factors ELSE Zero
        risk_penalty == RMul(risk_factors, Tenths(1))
        final_score ==
            RMax(Zero, RSub(RAdd(keyword_component, RAdd(relevance_component, advanced_component)),
                            risk_penalty))
        rec == _get_recommendation(final_score, advanced_signals)
    IN  <<final_score, rec[1], rec[2]>>

\* _get_sentiment_label(sentiment_score)
_get_sentiment_label(sentiment_score) ==
    IF RGt(sentiment_score, Tenths(3)) THEN "Very Positive"
    ELSE IF RGt(sentiment_score, Tenths(1)) THEN "Positive"
    ELSE IF RGt(sentiment_score, Tenths(-1)) THEN "Neutral"
    ELSE IF RGt(sentiment_score, Tenths(-3)) THEN "Negative"
    ELSE "Very Negative"

SUMMARY_CATEGORIES == 3

\* _create_enhanced_summary(...)
_create_enhanced_summary(relevance_score, sentiment_score, impact_level, has_catalyst, categories, advanced_signals, pos_count, neg_count, cat_count) ==
    LET summary_parts ==
            << "Impact: " \o upper(impact_level),
               "Tone: " \o _get_sentiment_label(sentiment_score),
               "Categories: " \o (IF categories # <<>>
                                  THEN Join(", ", Prefix(categories, SUMMARY_CATEGORIES))
                                  ELSE "General"),
               "Keywords: " \o ToString(pos_count) \o "+ " \o ToString(neg_count) \o "- "
                            \o ToString(cat_count) \o "⚡" >>
            \o (IF advanced_signals # <<>>
                THEN <<"Signals: " \o get_signal_summary(advanced_signals)>> ELSE <<>>)
            \o (IF has_catalyst THEN <<"⚡ CATALYST EVENT">> ELSE <<>>)
    IN  Join(" | ", summary_parts)

\* _create_empty_enhanced_classification()
_create_empty_enhanced_classification ==
    [relevance_score |-> Zero, sentiment_score |-> Zero, sentiment_label |-> "Unknown",
     impact_level |-> "low", has_catalyst |-> FALSE, categories |-> <<>>,
     summary |-> "Analysis failed", advanced_signals |-> <<>>, advanced_score |-> Zero,
     risk_adjusted_score |-> Zero, signal_confidence |-> Zero, final_score |-> Zero,
     recommendation |-> "IGNORE", timeframe |-> "Unknown",
     positive_keywords |-> <<>>, negative_keywords |-> <<>>, catalyst_keywords |-> <<>>]

\* The steps of classify_news over its local variables.  A step that raises yields Raised.
Raised == [exception |-> "Exception"]

\* Step 1: basic keyword analysis; formatting the text is the first thing that can raise
KeywordStep(keywords, title, content, snippet) ==
    IF ~CanFormat(title, content, snippet) THEN Raised
    ELSE [positive_keywords |-> extract_positive_keywords(keywords, title, content, snippet),
          negative_keywords |-> extract_negative_keywords(keywords, title, content, snippet),
          catalyst_keywords |-> extract_catalyst_keywords(keywords, title, content, snippet)]

\* Step 2: advanced signal analysis
SignalStep(analyzer, title, content, snippet) ==
    Bind(analyze_advanced_signals(analyzer, title, content, snippet), LAMBDA advanced_signals :
        [advanced_signals |-> advanced_signals,
         advanced_metrics |-> calculate_advanced_score(advanced_signals)])

\* Steps 3 to 6: scores, impact, categories, final score, summary, and the returned object
FusionStep(seed, kw, sig) ==
    LET relevance_score ==
            _calculate_relevance_score(kw.positive_keywords, kw.negative_keywords,
                                       kw.catalyst_keywords, sig.advanced_signals)
        sentiment_score ==
            calculate_sentiment_score(kw.positive_keywords, kw.negative_keywords)
        impact_level ==
            _determine_enhanced_impact_level(relevance_score, sentiment_score,
                                             kw.catalyst_keywords, sig.advanced_signals)
        IsTiming(sg) == In("timing_", sg.signal_type)
        has_catalyst ==
            Len(kw.catalyst_keywords) > 0 \/ Exists(sig.advanced_signals, IsTiming)
        categories ==
            _classify_enhanced_categories(seed, kw.positive_keywords, kw.catalyst_keywords,
                                          sig.advanced_signals)
        final ==
            _calculate_final_score(relevance_score, sentiment_score, sig.advanced_metrics,
                                   sig.advanced_signals)
        summary ==
            _create_enhanced_summary(relevance_score, sentiment_score, impact_level,
                                     has_catalyst, categories, sig.advanced_signals,
                                     Len(kw.positive_keywords), Len(kw.negative_keywords),
                                     Len(kw.catalyst_keywords))
    IN  [relevance_score |-> relevance_score, sentiment_score |-> sentiment_score,
         sentiment_label |-> _get_sentiment_label(sentiment_score),
         impact_level |-> impact_level, has_catalyst |-> has_catalyst,
         categories |-> categories, summary |-> summary,
         advanced_signals |-> sig.advanced_signals,
         advanced_score |-> sig.advanced_metrics.advanced_score,
         risk_adjusted_score |-> sig.advanced_metrics.risk_adjusted_score,
         signal_confidence |-> sig.advanced_metrics.confidence,
         final_score |-> final[1], recommendation |-> final[2], timeframe |-> final[3],
         positive_keywords |-> kw.positive_keywords,
         negative_keywords |-> kw.negative_keywords,
         catalyst_keywords |-> kw.catalyst_keywords]

\* the try block of classify_news
ClassifyBody(keywords, analyzer, seed, title, content, snippet) ==
    Bind(KeywordStep(keywords, title, content, snippet), LAMBDA kw :
        IF kw = Raised THEN Raised
        ELSE Bind(SignalStep(analyzer, title, content, snippet), LAMBDA sig :
                 FusionStep(seed, kw, sig)))

\* classify_news without its `except Exception` clause: a raise reaches the caller
classify_news_unguarded(keywords, analyzer, seed, title, content, snippet) ==
    ClassifyBody(keywords, analyzer, seed, title, content, snippet)

\* classify_news(title, content, snippet): `except Exception` returns the empty classification
classify_news(keywords, analyzer, seed, title, content, snippet) ==
    Bind(ClassifyBody(keywords, analyzer, seed, title, content, snippet), LAMBDA outcome :
        IF outcome = Raised THEN _create_empty_enhanced_classification ELSE outcome)

(***************************************************************************)
(* The articles the scrapers deliver: dict items with a title, an optional *)
(* content and a snippet.                                                  *)
(***************************************************************************)
Titles ==
    {"", "Ericsson rapporterar 25% tillväxt", "H&M varnar för förluster",
     "Volvo höjer prognos efter rekordorder"}

Contents == {"", "Bokslut klart, säkrar finansiering"}

Fragments ==
    {"köpråd", "rekordorderingång", "vinstvarning", "Q3",
     "kontrakt värt 2 miljarder kronor", "intäkter ökade 14 procent", "patent",
     "Skulder ökar, lönsamheten försämras"}

MaxFrags == 1

\* the snippets of at most n fragments, joined by single spaces
RECURSIVE SnippetsOf(_)
SnippetsOf(n) ==
    IF n = 0 THEN {""}
    ELSE LET shorter == SnippetsOf(n - 1)
         IN  shorter \cup {IF s = "" THEN f ELSE s \o " " \o f : s \in shorter, f \in Fragments}

Snippets == SnippetsOf(MaxFrags)

Article(title, content, snippet) == [title |-> title, content |-> content, snippet |-> snippet]

Articles == {Article(t, c, s) : t \in Titles, c \in Contents, s \in Snippets}

\* an argument whose string formatting raises, in each of the three positions
FaultyArticles ==
    {Article(Unformattable, "", ""),
     Article("", Unformattable, "köpråd"),
     Article("Volvo höjer prognos efter rekordorder", "", Unformattable)}

EmptyArticle == Article("", "", "")

None == [none |-> TRUE]

(***************************************************************************)
(* State.                                                                  *)
(***************************************************************************)
VARIABLES
    hashSeed,           \* the string-hash seed of the running interpreter process
    swedish_keywords,   \* nlp/keywords.py: the module-level keyword analyzer's tables
    advanced_analyzer,  \* nlp/advanced_analysis.py: the module-level analyzer's tables
    article,            \* the (title, content, snippet) a caller classifies
    classification,     \* what the latest classify_news call on article returned
    previous,           \* what the call before it returned
    calls,              \* the number of classify_news calls made on article
    news_items,         \* main.py: the batch handed to MorningScanner._classify_news
    classified_news,    \* main.py: the list _classify_news returned
    stage,              \* main.py: how far run() has come with the batch
    insights,           \* main.py: what the latest get_enhanced_insights call returned
    prior_insights,     \* what the get_enhanced_insights call before it returned
    insight_calls,      \* the number of get_enhanced_insights calls made on the batch
    picks,              \* storage/picks_log.py: the rows appended to the picks log file
    threads,            \* per thread: its classify_news call, its locals and its position
    added,              \* the number of keyword occurrences added to article's snippet
    given_score,        \* the final_score handed to _get_recommendation
    given_signals,      \* the signal list handed to _get_recommendation
    advice,             \* the (recommendation, timeframe) _get_recommendation returned
    given_relevance,    \* the relevance_score handed to _determine_enhanced_impact_level
    given_sentiment,    \* the sentiment_score handed to _determine_enhanced_impact_level
    given_catalysts,    \* the catalyst keyword list handed to it
    impact,             \* the impact level it returned
    given_text,         \* the text handed to an operation of the keyword matcher
    matched,            \* what that operation returned or raised
    scan,               \* the locals of the extract_keywords call in progress
    metrics,            \* what calculate_advanced_score returned for given_signals
    detected            \* what _analyze_quantitative returned for given_text

processVars == <<hashSeed, swedish_keywords, advanced_analyzer>>
callVars == <<article, classification, previous, calls, added>>
batchVars == <<news_items, classified_news, stage, insights, prior_insights, insight_calls, picks>>
threadVars == <<threads>>
queryVars == <<given_score, given_signals, advice, given_relevance, given_sentiment, given_catalysts, impact, given_text, matched, scan, metrics, detected>>
vars == <<hashSeed, swedish_keywords, advanced_analyzer, article, classification, previous, calls, news_items, classified_news, stage, insights, prior_insights, insight_calls, picks, threads, added, given_score, given_signals, advice, given_relevance, given_sentiment, given_catalysts, impact, given_text, matched, scan, metrics, detected>>

MaxCalls == 2

MaxThreads == 2

Threads == 1..MaxThreads

\* a thread that is not inside classify_news
IdleThread == [pc |-> "idle", article |-> EmptyArticle, kw |-> None, sig |-> None, result |-> None]

\* import of nlp.keywords and nlp.advanced_analysis in a fresh interpreter
StartProcess(seed) ==
    /\ hashSeed' = seed
    /\ swedish_keywords' = SwedishFinancialKeywords
    /\ advanced_analyzer' = AdvancedAnalyzer

ProcessStarted ==
    /\ hashSeed \in HashSeeds
    /\ swedish_keywords = SwedishFinancialKeywords
    /\ advanced_analyzer = AdvancedAnalyzer

\* no classify_news call is being observed
NoCall ==
    /\ article = EmptyArticle
    /\ classification = None
    /\ previous = None
    /\ calls = 0
    /\ added = 0

\* no thread is inside classify_news
NoThreads == threads = [t \in Threads |-> IdleThread]

\* no _get_recommendation call is being observed
NoRecommendationQuery ==
    /\ given_score = Zero
    /\ given_signals = <<>>
    /\ advice = <<>>

\* no _determine_enhanced_impact_level call is being observed
NoImpactQuery ==
    /\ given_relevance = Zero
    /\ given_sentiment = Zero
    /\ given_catalysts = <<>>
    /\ impact = ""

\* no operation of the keyword matcher is being observed
NoMatcherQuery ==
    /\ given_text = ""
    /\ matched = None
    /\ scan = None

\* no operation of the signal detector is being observed
NoScoreQuery ==
    /\ metrics = None
    /\ detected = None

\* no internal operation is being observed
NoQuery ==
    /\ NoScoreQuery
    /\ NoRecommendationQuery
    /\ NoImpactQuery
    /\ NoMatcherQuery

\* get_enhanced_insights has not been called
NoInsights ==
    /\ insights = None
    /\ prior_insights = None
    /\ insight_calls = 0

\* no pick has been appended to the picks log file
NoPicks == picks = <<>>

\* no batch is being processed
NoBatch ==
    /\ news_items = <<>>
    /\ classified_news = <<>>
    /\ stage = "idle"
    /\ NoInsights
    /\ NoPicks

(***************************************************************************)
(* The classifier as a service: calls of classify_news on one article, in  *)
(* one interpreter process or across restarts of the program.              *)
(***************************************************************************)
Init ==
    /\ ProcessStarted
    /\ article \in Articles \cup FaultyArticles
    /\ classification = None
    /\ previous = None
    /\ calls = 0
    /\ added = 0
    /\ NoBatch
    /\ NoThreads
    /\ NoQuery

\* news_classifier.classify_news(title, content, snippet)
Classify ==
    /\ calls < MaxCalls
    /\ classification' = classify_news(swedish_keywords, advanced_analyzer, hashSeed,
                                       article.title, article.content, article.snippet)
    /\ previous' = classification
    /\ calls' = calls + 1
    /\ UNCHANGED <<processVars, article, added, batchVars, threadVars, queryVars>>

\* the program exits and is started again (python main.py runs the pipeline once)
Restart ==
    /\ \E seed \in HashSeeds \ {hashSeed} : StartProcess(seed)
    /\ UNCHANGED <<callVars, batchVars, threadVars, queryVars>>

Next == Classify \/ Restart

Spec == Init /\ [][Next]_vars

(***************************************************************************)
(* The per-item classification loop of the pipeline (main.py).             *)
(***************************************************************************)
\* dict.get(key, default)
Get(item, key, default) == IF key \in DOMAIN item THEN item[key] ELSE default

\* the loop body with item['title'] in place of item.get('title', '')
ClassifyItem_subscripted(keywords, analyzer, seed, item) ==
    IF {"title", "snippet", "content"} \subseteq DOMAIN item
    THEN Bind(classify_news(keywords, analyzer, seed, item.title, item.content, item.snippet),
              LAMBDA outcome :
                  IF outcome = Raised THEN Raised
                  ELSE ("classification" :> outcome) @@ item)
    ELSE Raised

\* the try block of the loop body: the item with its classification, or Raised
ClassifyItem(keywords, analyzer, seed, item) ==
    Bind(classify_news(keywords, analyzer, seed, Get(item, "title", ""),
                       Get(item, "content", ""), Get(item, "snippet", "")),
         LAMBDA outcome :
             IF outcome = Raised THEN Raised
             ELSE ("classification" :> outcome) @@ item)

\* the for loop of _classify_news: the outcome of the try block for each item in turn
ClassifyItems(keywords, analyzer, seed, items) ==
    [i \in 1..Len(items) |-> ClassifyItem(keywords, analyzer, seed, items[i])]

\* classified_news.append(item) happens for the items whose try block completed;
\* `except Exception: continue` leaves the others out
Appended(outcomes) ==
    LET Completed(outcome) == outcome # Raised
    IN  SelectSeq(outcomes, Completed)

\* the sort key getattr(x.get('classification'), 'relevance_score', 0)
RelevanceKey(x) ==
    IF "classification" \in DOMAIN x THEN x.classification.relevance_score ELSE Zero

\* list.sort(key=..., reverse=True): stable, highest key first
RECURSIVE SortByRelevance(_)
SortByRelevance(items) ==
    IF items = <<>> THEN <<>>
    ELSE LET last == items[Len(items)]
             front == SortByRelevance(SubSeq(items, 1, Len(items) - 1))
             Before(x) == RGe(RelevanceKey(x), RelevanceKey(last))
             After(x) == ~Before(x)
         IN  SelectSeq(front, Before) \o <<last>> \o SelectSeq(front, After)

\* the items the scrapers build: dicts with a title and a snippet, some with content
\* (sources/extras.py), some with a key missing, one with a field that cannot be formatted
ScrapedItems ==
    {[source |-> "MFN", title |-> "Volvo höjer prognos efter rekordorder", snippet |-> "köpråd"],
     [source |-> "RSS", title |-> "H&M varnar för förluster", snippet |-> "vinstvarning",
      content |-> "Bokslut klart, säkrar finansiering"],
     [source |-> "DI", title |-> "Ericsson rapporterar 25% tillväxt",
      snippet |-> "kontrakt värt 2 miljarder kronor"],
     [source |-> "DI", snippet |-> "patent"],
     [source |-> "RSS", title |-> Unformattable, snippet |-> "Q3", content |-> ""]}

MaxBatch == 2

RECURSIVE BatchesOf(_)
BatchesOf(n) ==
    IF n = 0 THEN {<<>>}
    ELSE LET shorter == BatchesOf(n - 1)
         IN  shorter \cup {Append(batch, item) : batch \in shorter, item \in ScrapedItems}

InitBatch ==
    /\ ProcessStarted
    /\ NoCall
    /\ news_items \in BatchesOf(MaxBatch)
    /\ classified_news = <<>>
    /\ stage = "collected"
    /\ NoInsights
    /\ NoPicks
    /\ NoThreads
    /\ NoQuery

\* MorningScanner._classify_news(news_items), with its closing sort; the dicts of
\* news_items are updated in place
ClassifyNews ==
    /\ stage = "collected"
    /\ LET outcomes == ClassifyItems(swedish_keywords, advanced_analyzer, hashSeed, news_items)
       IN  /\ classified_news' = SortByRelevance(Appended(outcomes))
           /\ news_items' = [i \in 1..Len(news_items) |->
                                 IF outcomes[i] = Raised THEN news_items[i] ELSE outcomes[i]]
    /\ stage' = "classified"
    /\ UNCHANGED <<processVars, callVars, threadVars, queryVars, insights, prior_insights, insight_calls, picks>>

\* item.get('classification', {}).get(...): the NewsClassification that _classify_news
\* attached is a dataclass object without a get method, so the second get raises
\* AttributeError; only the {} default of an item without the key answers it
ClassificationHasGet(item) == "classification" \notin DOMAIN item

\* f"{score:.3f}": the score rounded to three decimals
Round3(score) == R((2000 * score[1] + score[2]) \div (2 * score[2]), 1000)

\* PicksLogger.log_pick as _log_picks calls it for an item whose classification lookups
\* all took their defaults: the row appended to the CSV file, without its timestamp
log_pick(item) ==
    [title |-> Slice(Get(item, "title", ""), 0, Min2(200, Len(Get(item, "title", "")))),
     url |-> Get(item, "url", Get(item, "link", "")),
     source |-> Get(item, "source", "Unknown"),
     relevance_score |-> Round3(Zero), sentiment_score |-> Round3(Zero),
     impact_level |-> "low", has_catalyst |-> "No", categories |-> ""]

\* MorningScanner._log_picks(classified_news) on the rows of the picks log file: the
\* filter raises on the first item that carries a classification and `except Exception`
\* ends the method; an item without one has relevance 0 and is filtered out
_log_picks(classified, rows) ==
    IF \E i \in 1..Len(classified) : ~ClassificationHasGet(classified[i])
    THEN rows
    ELSE LET HighRelevance(item) == RGe(Zero, Tenths(3))
             high_relevance_news == SelectSeq(classified, HighRelevance)
         IN  rows \o [i \in 1..Len(high_relevance_news) |-> log_pick(high_relevance_news[i])]

\* self._log_picks(classified_news), step 4 of run(); step 3 (get_enhanced_insights)
\* leaves classified_news as it is
LogPicks ==
    /\ stage = "classified"
    /\ picks' = _log_picks(classified_news, picks)
    /\ stage' = "logged"
    /\ UNCHANGED <<processVars, callVars, threadVars, queryVars, news_items, classified_news, insights, prior_insights, insight_calls>>

NextBatch == ClassifyNews \/ LogPicks

SpecBatch == InitBatch /\ [][NextBatch]_vars

(***************************************************************************)
(* The batch summary (NewsClassifier.get_enhanced_insights), which run()   *)
(* computes from the list _classify_news returned.                         *)
(***************************************************************************)
\* item.get('classification', {}).final_score: the {} default has no such attribute
FinalScoreOf(item) ==
    IF "classification" \in DOMAIN item THEN item.classification.final_score ELSE Raised

\* the loop that fills all_signals: items without a classification are passed over
AllSignals(classified) ==
    Concat([i \in 1..Len(classified) |->
        IF "classification" \in DOMAIN classified[i]
        THEN classified[i].classification.advanced_signals ELSE <<>>])

\* signal_types: (category, count) pairs in the insertion order of the dict
SignalBreakdown(all_signals) ==
    LET cats == [i \in 1..Len(all_signals) |-> SignalCategory(all_signals[i].signal_type)]
        keys == FirstSeen(cats, {})
    IN  [k \in 1..Len(keys) |-> <<keys[k], Count(cats, keys[k])>>]

\* sorted(signal_types.items(), key=lambda x: x[1], reverse=True): stable, highest first
RECURSIVE SortByCount(_)
SortByCount(pairs) ==
    IF pairs = <<>> THEN <<>>
    ELSE LET last == pairs[Len(pairs)]
             front == SortByCount(SubSeq(pairs, 1, Len(pairs) - 1))
             Before(x) == x[2] >= last[2]
             After(x) == ~Before(x)
         IN  SelectSeq(front, Before) \o <<last>> \o SelectSeq(front, After)

TOP_SIGNALS == 3

\* the characters U+1F680 and U+1F4CA of the insight text, written by name
ROCKET == "<U+1F680>"
BAR_CHART == "<U+1F4CA>"

\* get_enhanced_insights(classified_news); Raised when the strong-opportunity count raises
get_enhanced_insights(classified) ==
    IF classified = <<>>
    THEN [total_items |-> 0, strong_opportunities |-> 0, advanced_signals_detected |-> 0,
          insights |-> "No news to analyze"]
    ELSE IF \E i \in 1..Len(classified) : FinalScoreOf(classified[i]) = Raised
    THEN Raised
    ELSE LET strong_opportunities ==
                 Cardinality({i \in 1..Len(classified) :
                                 RGe(FinalScoreOf(classified[i]), Tenths(6))})
             all_signals == AllSignals(classified)
             signal_types == SignalBreakdown(all_signals)
             top_signals == Prefix(SortByCount(signal_types), TOP_SIGNALS)
             signal_summary ==
                 Join(", ", [k \in 1..Len(top_signals) |->
                                top_signals[k][1] \o "(" \o ToString(top_signals[k][2]) \o ")"])
             insights_parts ==
                 (IF strong_opportunities > 0
                  THEN <<ROCKET \o " " \o ToString(strong_opportunities) \o " strong opportunities detected">>
                  ELSE <<>>)
                 \o (IF signal_types # <<>>
                     THEN <<BAR_CHART \o " Advanced signals: " \o signal_summary>> ELSE <<>>)
         IN  [total_items |-> Len(classified),
              strong_opportunities |-> strong_opportunities,
              advanced_signals_detected |-> Len(all_signals),
              signal_breakdown |-> signal_types,
              insights |-> IF insights_parts # <<>> THEN Join(" | ", insights_parts)
                           ELSE "Market analysis complete"]

\* a dict that reaches the aggregator without a 'classification' entry
UnclassifiedItem == [source |-> "DI", title |-> "Ericsson rapporterar 25% tillväxt", snippet |-> ""]

\* the items a caller hands to get_enhanced_insights: the scraped items as the
\* classification loop leaves them, and an unclassified one
InsightItems(seed) ==
    {ClassifyItem(SwedishFinancialKeywords, AdvancedAnalyzer, seed, item) : item \in ScrapedItems}
    \cup {UnclassifiedItem}

MaxInsightBatch == 2

RECURSIVE InsightBatches(_, _)
InsightBatches(seed, n) ==
    IF n = 0 THEN {<<>>}
    ELSE LET shorter == InsightBatches(seed, n - 1)
         IN  shorter \cup {Append(batch, item) : batch \in shorter, item \in InsightItems(seed)}

MaxInsightCalls == 2

InitInsights ==
    /\ ProcessStarted
    /\ NoCall
    /\ news_items = <<>>
    /\ classified_news \in InsightBatches(hashSeed, MaxInsightBatch)
    /\ stage = "classified"
    /\ NoInsights
    /\ NoPicks
    /\ NoThreads
    /\ NoQuery

\* get_enhanced_insights with all_signals aliased to the first item's own signal list
GetInsights_aliasing ==
    /\ stage = "classified"
    /\ insight_calls < MaxInsightCalls
    /\ insights' = get_enhanced_insights(classified_news)
    /\ prior_insights' = insights
    /\ insight_calls' = insight_calls + 1
    /\ classified_news' =
          IF classified_news # <<>> /\ "classification" \in DOMAIN classified_news[1]
          THEN [classified_news EXCEPT ![1].classification.advanced_signals =
                                           AllSignals(classified_news)]
          ELSE classified_news
    /\ UNCHANGED <<processVars, callVars, threadVars, queryVars, news_items, stage, picks>>

\* insights = self.news_classifier.get_enhanced_insights(classified_news)
GetInsights ==
    /\ stage = "classified"
    /\ insight_calls < MaxInsightCalls
    /\ insights' = get_enhanced_insights(classified_news)
    /\ prior_insights' = insights
    /\ insight_calls' = insight_calls + 1
    /\ UNCHANGED <<processVars, callVars, threadVars, queryVars, news_items, classified_news, stage, picks>>

NextInsights == GetInsights

SpecInsights == InitInsights /\ [][NextInsights]_vars

(***************************************************************************)
(* The public operations of the keyword matcher, called on one text.       *)
(***************************************************************************)
\* self.calculate_sentiment_score(*args): the method takes two keyword lists, and a call
\* with another number of positional arguments raises TypeError
Call_calculate_sentiment_score(args) ==
    IF Len(args) = 2 THEN calculate_sentiment_score(args[1], args[2]) ELSE Raised

\* SwedishFinancialKeywords._get_sentiment_label(score)
keywords_get_sentiment_label(score) ==
    IF RGe(score, Tenths(5)) THEN "Very Positive"
    ELSE IF RGe(score, Tenths(1)) THEN "Positive"
    ELSE IF RLe(score, Tenths(-5)) THEN "Very Negative"
    ELSE IF RLe(score, Tenths(-1)) THEN "Negative"
    ELSE "Neutral"

\* sorted(matches, key=lambda x: x.score, reverse=True): stable, highest first
RECURSIVE SortByScore(_)
SortByScore(matches) ==
    IF matches = <<>> THEN <<>>
    ELSE LET last == matches[Len(matches)]
             front == SortByScore(SubSeq(matches, 1, Len(matches) - 1))
             Before(x) == RGe(x.score, last.score)
             After(x) == ~Before(x)
         IN  SelectSeq(front, Before) \o <<last>> \o SelectSeq(front, After)

TOP_KEYWORDS == 5

\* [{'keyword': m.keyword, 'score': m.score} for m in sorted(...)[:5]]
TopKeywords(matches) ==
    LET top == Prefix(SortByScore(matches), TOP_KEYWORDS)
    IN  [i \in 1..Len(top) |-> [keyword |-> top[i].keyword, score |-> top[i].score]]

\* get_keyword_summary(text)
get_keyword_summary(self, text) ==
    LET keywords == extract_keywords(self, text)
        counts == [positive |-> Len(keywords.positive), negative |-> Len(keywords.negative),
                   catalyst |-> Len(keywords.catalyst),
                   total |-> Len(keywords.positive) + Len(keywords.negative)
                             + Len(keywords.catalyst)]
        sentiment_score == Call_calculate_sentiment_score(<<text>>)
    IN  IF sentiment_score = Raised THEN Raised
        ELSE [counts |-> counts,
              sentiment_score |-> sentiment_score,
              sentiment_label |-> keywords_get_sentiment_label(sentiment_score),
              top_positive |-> TopKeywords(keywords.positive),
              top_negative |-> TopKeywords(keywords.negative),
              top_catalyst |-> TopKeywords(keywords.catalyst),
              has_catalyst |-> counts.catalyst > 0,
              overall_tone |-> IF RGt(sentiment_score, Tenths(1)) THEN "positive"
                               ELSE IF RLt(sentiment_score, Tenths(-1)) THEN "negative"
                               ELSE "neutral"]

\* is_high_impact_news(text)
is_high_impact_news(self, text) ==
    LET keywords == extract_keywords(self, text)
        sentiment_score == Call_calculate_sentiment_score(<<text>>)
    IN  IF sentiment_score = Raised THEN Raised
        ELSE \/ RGt(RAbs(sentiment_score), Tenths(3))
             \/ Len(keywords.catalyst) > 0
             \/ Len(keywords.positive) + Len(keywords.negative) >= 3

\* the texts classify_news hands to the matcher, the empty text among them
\* and two texts with lexicon phrases of more than 20 characters
LongPhraseTexts ==
    {"Kapitalmarknadsuppdatering i dag, bolaget överträffar förväntningarna",
     "I dag köpråd, bolaget överträffar förväntningarna"}

MatcherTexts ==
    {strip(Format3(a.title, a.content, a.snippet)) : a \in Articles} \cup LongPhraseTexts

InitMatcher ==
    /\ ProcessStarted
    /\ NoScoreQuery
    /\ NoCall
    /\ NoBatch
    /\ NoThreads
    /\ NoRecommendationQuery
    /\ NoImpactQuery
    /\ given_text \in MatcherTexts
    /\ matched = None
    /\ scan = None

\* the caller's view of one operation: its name and what it returned, or Raised
Observed(operation, value) == [operation |-> operation, value |-> value]

MatcherUnchanged ==
    UNCHANGED <<processVars, callVars, batchVars, threadVars, metrics, detected, given_score, given_signals, advice, given_relevance, given_sentiment, given_catalysts, impact, given_text, scan>>

\* swedish_keywords.extract_keywords(text)
ExtractKeywords ==
    /\ matched = None
    /\ matched' = Observed("extract_keywords", extract_keywords(swedish_keywords, given_text))
    /\ MatcherUnchanged

\* swedish_keywords.get_keyword_summary(text)
GetKeywordSummary ==
    /\ matched = None
    /\ matched' = Observed("get_keyword_summary", get_keyword_summary(swedish_keywords, given_text))
    /\ MatcherUnchanged

\* swedish_keywords.is_high_impact_news(text)
IsHighImpactNews ==
    /\ matched = None
    /\ matched' = Observed("is_high_impact_news", is_high_impact_news(swedish_keywords, given_text))
    /\ MatcherUnchanged

NextMatcher == ExtractKeywords \/ GetKeywordSummary \/ IsHighImpactNews

SpecMatcher == InitMatcher /\ [][NextMatcher]_vars

(***************************************************************************)
(* Concurrent callers of classify_news on the shared module-level          *)
(* classifier: each thread runs the steps of the call over its own locals. *)
(***************************************************************************)
ThreadArticles ==
    {Article("Volvo höjer prognos efter rekordorder", "", "köpråd"),
     Article("H&M varnar för förluster", "Bokslut klart, säkrar finansiering", "vinstvarning"),
     Article("", Unformattable, "köpråd")}

InitThreads ==
    /\ ProcessStarted
    /\ NoCall
    /\ NoBatch
    /\ NoThreads
    /\ NoQuery

\* a thread enters classify_news(title, content, snippet)
Call(t) ==
    /\ threads[t].pc \in {"idle", "returned"}
    /\ \E a \in ThreadArticles :
          threads' = [threads EXCEPT ![t] = [IdleThread EXCEPT !.pc = "keywords", !.article = a]]
    /\ UNCHANGED <<processVars, callVars, batchVars, queryVars>>

\* step 1 with a matcher that consumes the lexicon entry it has just searched for
StepKeywords_consuming(t) ==
    /\ threads[t].pc = "keywords"
    /\ LET a == threads[t].article
           kw == KeywordStep(swedish_keywords, a.title, a.content, a.snippet)
       IN  threads' = [threads EXCEPT ![t] =
                          IF kw = Raised
                          THEN [@ EXCEPT !.pc = "returned",
                                         !.result = _create_empty_enhanced_classification]
                          ELSE [@ EXCEPT !.pc = "signals", !.kw = kw]]
    /\ swedish_keywords' =
          [swedish_keywords EXCEPT !.POSITIVE_KEYWORDS =
              IF Len(@) > 1 THEN Tail(@) ELSE @]
    /\ UNCHANGED <<hashSeed, advanced_analyzer, callVars, batchVars, queryVars>>

\* step 1 of classify_news: the three keyword extractions; a raise goes to the handler,
\* which returns the empty classification
StepKeywords(t) ==
    /\ threads[t].pc = "keywords"
    /\ LET a == threads[t].article
           kw == KeywordStep(swedish_keywords, a.title, a.content, a.snippet)
       IN  threads' = [threads EXCEPT ![t] =
                          IF kw = Raised
                          THEN [@ EXCEPT !.pc = "returned",
                                         !.result = _create_empty_enhanced_classification]
                          ELSE [@ EXCEPT !.pc = "signals", !.kw = kw]]
    /\ UNCHANGED <<processVars, callVars, batchVars, queryVars>>

\* step 2 of classify_news: signal analysis and its aggregate
StepSignals(t) ==
    /\ threads[t].pc = "signals"
    /\ LET a == threads[t].article
       IN  threads' = [threads EXCEPT ![t] =
                          [@ EXCEPT !.pc = "fusion",
                                    !.sig = SignalStep(advanced_analyzer, a.title, a.content,
                                                       a.snippet)]]
    /\ UNCHANGED <<processVars, callVars, batchVars, queryVars>>

\* steps 3 to 6 of classify_news and its return
StepFusion(t) ==
    /\ threads[t].pc = "fusion"
    /\ threads' = [threads EXCEPT ![t] =
                      [@ EXCEPT !.pc = "returned",
                                !.result = FusionStep(hashSeed, threads[t].kw, threads[t].sig)]]
    /\ UNCHANGED <<processVars, callVars, batchVars, queryVars>>

NextThreads ==
    \E t \in Threads : Call(t) \/ StepKeywords(t) \/ StepSignals(t) \/ StepFusion(t)

SpecThreads == InitThreads /\ [][NextThreads]_vars

(***************************************************************************)
(* _get_recommendation as a function of its two arguments.                 *)
(***************************************************************************)
MaxScoreHundredths == 120

\* final scores in steps of 0.01; _calculate_final_score never returns a negative one
FinalScores == {Hundredths(n) : n \in 0..MaxScoreHundredths}

\* signal lists as analyze_advanced_signals builds them: none, an immediate timing
\* signal, short-term quantitative signals, a lone risk signal, an immediate signal next
\* to a short-term one, an immediate signal of strength 0.6 next to a long-term one
SignalLists ==
    {analyze_advanced_signals(AdvancedAnalyzer, a.title, a.content, a.snippet) :
        a \in {EmptyArticle,
               Article("", "", "köpråd"),
               Article("Ericsson rapporterar 25% tillväxt", "", "kontrakt värt 2 miljarder kronor"),
               Article("H&M varnar för förluster", "", ""),
               Article("", "", "köpråd kontrakt värt 2 miljarder kronor"),
               Article("", "", "fonder köper patent")}}

InitRecommendation ==
    /\ ProcessStarted
    /\ NoScoreQuery
    /\ NoCall
    /\ NoBatch
    /\ NoThreads
    /\ given_score \in FinalScores
    /\ given_signals \in SignalLists
    /\ advice = <<>>
    /\ NoImpactQuery
    /\ NoMatcherQuery

\* recommendation, timeframe = self._get_recommendation(final_score, advanced_signals)
GetRecommendation ==
    /\ advice = <<>>
    /\ advice' = _get_recommendation(given_score, given_signals)
    /\ UNCHANGED <<processVars, callVars, batchVars, threadVars, metrics, detected, given_score, given_signals, given_relevance, given_sentiment, given_catalysts, impact, given_text, matched, scan>>

NextRecommendation == GetRecommendation

SpecRecommendation == InitRecommendation /\ [][NextRecommendation]_vars

(***************************************************************************)
(* calculate_advanced_score as a function of the signal list.              *)
(***************************************************************************)
\* the signal lists analyze_advanced_signals builds for the articles, the empty one among
\* them, and for an article with a timing signal, a competitive signal and a risk signal
ArticleSignalLists ==
    {analyze_advanced_signals(AdvancedAnalyzer, a.title, a.content, a.snippet) :
        a \in Articles \cup
              {Article("Volvo höjer prognos efter rekordorder", "", "patent vinstvarning")}}

InitAdvancedScore ==
    /\ ProcessStarted
    /\ NoCall
    /\ NoBatch
    /\ NoThreads
    /\ NoImpactQuery
    /\ NoMatcherQuery
    /\ given_score = Zero
    /\ given_signals \in ArticleSignalLists
    /\ advice = <<>>
    /\ metrics = None
    /\ detected = None

\* advanced_metrics = self.advanced_analyzer.calculate_advanced_score(advanced_signals)
CalculateAdvancedScore ==
    /\ metrics = None
    /\ metrics' = calculate_advanced_score(given_signals)
    /\ UNCHANGED <<processVars, callVars, batchVars, threadVars, detected, given_score, given_signals, advice, given_relevance, given_sentiment, given_catalysts, impact, given_text, matched, scan>>

NextAdvancedScore == CalculateAdvancedScore

SpecAdvancedScore == InitAdvancedScore /\ [][NextAdvancedScore]_vars

(***************************************************************************)
(* _analyze_quantitative as a function of the text.                        *)
(***************************************************************************)
\* sentences with a number for the revenue, margin, contract and market-share patterns:
\* below, at and above the thresholds 10, 2, 1 and 25
QuantitativeFragments ==
    {"", "intäkter ökade 5 procent", "intäkter ökade 14 procent",
     "omsättning ökade 10 %", "lönsamhet ökade 3", "kontrakt värt 2 miljarder kronor",
     "marknadsandel 24 procent"}

\* texts of up to three sentences
QuantitativeTexts ==
    {strip(first \o " " \o strip(second \o " " \o third)) :
        first, second, third \in QuantitativeFragments}

InitQuantitative ==
    /\ ProcessStarted
    /\ NoCall
    /\ NoBatch
    /\ NoThreads
    /\ NoRecommendationQuery
    /\ NoImpactQuery
    /\ given_text \in QuantitativeTexts
    /\ matched = None
    /\ scan = None
    /\ metrics = None
    /\ detected = None

\* quant_signals = self._analyze_quantitative(full_text)
AnalyzeQuantitative ==
    /\ detected = None
    /\ detected' = Observed("_analyze_quantitative",
                          _analyze_quantitative(advanced_analyzer, lower(given_text)))
    /\ UNCHANGED <<processVars, callVars, batchVars, threadVars, metrics, given_score, given_signals, advice, given_relevance, given_sentiment, given_catalysts, impact, given_text, matched, scan>>

NextQuantitative == AnalyzeQuantitative

SpecQuantitative == InitQuantitative /\ [][NextQuantitative]_vars

(***************************************************************************)
(* _determine_enhanced_impact_level as a function of its four arguments.   *)
(***************************************************************************)
\* relevance scores in steps of 0.05; _calculate_relevance_score returns min(1.0, ...)
RelevanceScores == {Hundredths(5 * n) : n \in 0..20}

MaxSentimentSteps == 8

\* sentiment scores in steps of 0.05 on both sides of 0
SentimentScores == {Hundredths(5 * n) : n \in (-MaxSentimentSteps)..MaxSentimentSteps}

\* catalyst keyword lists as extract_catalyst_keywords builds them: no, one and two matches
CatalystLists ==
    {extract_catalyst_keywords(SwedishFinancialKeywords, "", c, s) :
        c \in Contents, s \in {"", "Q3"}}

InitImpact ==
    /\ ProcessStarted
    /\ NoScoreQuery
    /\ NoCall
    /\ NoBatch
    /\ NoThreads
    /\ NoMatcherQuery
    /\ given_relevance \in RelevanceScores
    /\ given_sentiment \in SentimentScores
    /\ given_catalysts \in CatalystLists
    /\ given_signals \in SignalLists
    /\ given_score = Zero
    /\ advice = <<>>
    /\ impact = ""

\* impact_level = self._determine_enhanced_impact_level(relevance_score, sentiment_score,
\* catalyst_keywords, advanced_signals)
DetermineImpact ==
    /\ impact = ""
    /\ impact' = _determine_enhanced_impact_level(given_relevance, given_sentiment,
                                                  given_catalysts, given_signals)
    /\ UNCHANGED <<processVars, callVars, batchVars, threadVars, metrics, detected, given_score, given_signals, advice, given_relevance, given_sentiment, given_catalysts, given_text, matched, scan>>

NextImpact == DetermineImpact

SpecImpact == InitImpact /\ [][NextImpact]_vars

(***************************************************************************)
(* Classifying an article, then the same article with one more occurrence  *)
(* of a positive lexicon phrase appended to its snippet.                   *)
(***************************************************************************)
HaltedSnippet == "Köpråd handelsstoppas handelsstoppas efter beskedet på fredagskvällen"

GrowingArticles ==
    {Article("", "", HaltedSnippet),
     Article("", "", "köpråd"),
     Article("Volvo höjer prognos efter rekordorder", "", "vinstvarning"),
     Article("Volvo höjer prognos efter rekordorder", "Bokslut klart, säkrar finansiering",
             "rekordorderingång"),
     Article("H&M varnar för förluster", "", "köpråd vinstvarning"),
     Article("", "Bokslut klart, säkrar finansiering", "rekordorderingång")}

MaxAdded == 2

\* the positive lexicon phrases that occur in the article's text
OccurringPositive(a) ==
    LET text == lower(strip(Format3(a.title, a.content, a.snippet)))
    IN  {swedish_keywords.POSITIVE_KEYWORDS[i] :
            i \in {j \in 1..Len(swedish_keywords.POSITIVE_KEYWORDS) :
                       In(lower(swedish_keywords.POSITIVE_KEYWORDS[j]), text)}}

InitGrowing ==
    /\ ProcessStarted
    /\ article \in GrowingArticles
    /\ classification = None
    /\ previous = None
    /\ calls = 0
    /\ added = 0
    /\ NoBatch
    /\ NoThreads
    /\ NoQuery

\* classify_news on the article as it is
ClassifyOriginal ==
    /\ calls = 0
    /\ classification' = classify_news(swedish_keywords, advanced_analyzer, hashSeed,
                                       article.title, article.content, article.snippet)
    /\ calls' = 1
    /\ UNCHANGED <<processVars, article, previous, added, batchVars, threadVars, queryVars>>

\* one more occurrence of an occurring positive phrase is added to the snippet and
\* classify_news is called on the result
AddOccurrence ==
    /\ calls > 0
    /\ added < MaxAdded
    /\ \E phrase \in OccurringPositive(article) :
          /\ article' = [article EXCEPT !.snippet = @ \o " " \o phrase]
          /\ classification' = classify_news(swedish_keywords, advanced_analyzer, hashSeed,
                                             article'.title, article'.content, article'.snippet)
    /\ previous' = classification
    /\ added' = added + 1
    /\ calls' = calls + 1
    /\ UNCHANGED <<processVars, batchVars, threadVars, queryVars>>

NextGrowing == ClassifyOriginal \/ AddOccurrence

SpecGrowing == InitGrowing /\ [][NextGrowing]_vars

(***************************************************************************)
(* extract_keywords step by step: the three _find_keywords calls, each a   *)
(* for loop over its lexicon list with the while loop that scans the text  *)
(* for one keyword.                                                        *)
(***************************************************************************)
\* texts as classify_news hands them to the matcher: the empty text, texts without a
\* lexicon phrase, with one, with phrases of all three lists, with a phrase that occurs
\* several times and with a phrase that lies inside another
ScanTexts ==
    {"", "Q3", "Ericsson rapporterar 25% tillväxt", "rekordorderingång",
     "Volvo höjer prognos efter rekordorder  köpråd",
     "H&M varnar för förluster Bokslut klart, säkrar finansiering vinstvarning",
     "köpråd köpråd Q3 köpråd", HaltedSnippet}

\* the categories in the order of the results dict, and the list searched for each
ScanCategories == <<"positive", "negative", "catalyst">>

ScanList(self, category) ==
    IF category = "positive" THEN self.POSITIVE_KEYWORDS
    ELSE IF category = "negative" THEN self.NEGATIVE_KEYWORDS
    ELSE self.CATALYST_KEYWORDS

\* the locals on entry to the _find_keywords call for the n-th category
ScanOf(self, text_lower, n, results) ==
    [pc |-> "for", text |-> text_lower, category |-> n,
     pending |-> ScanList(self, ScanCategories[n]), keyword |-> "", start |-> 0,
     matches |-> <<>>, results |-> results]

ScanReturned == [pc |-> "returned"]

InitScan ==
    /\ ProcessStarted
    /\ NoScoreQuery
    /\ NoCall
    /\ NoBatch
    /\ NoThreads
    /\ NoRecommendationQuery
    /\ NoImpactQuery
    /\ given_text \in ScanTexts
    /\ matched = None
    /\ scan = None

ScanUnchanged ==
    UNCHANGED <<processVars, callVars, batchVars, threadVars, metrics, detected, given_score, given_signals, advice, given_relevance, given_sentiment, given_catalysts, impact, given_text>>

\* entry of extract_keywords: the empty text returns three empty lists at once
ScanEnter ==
    /\ scan = None
    /\ IF given_text = ""
       THEN /\ matched' = Observed("extract_keywords",
                                   [positive |-> <<>>, negative |-> <<>>, catalyst |-> <<>>])
            /\ scan' = ScanReturned
       ELSE /\ scan' = ScanOf(swedish_keywords, lower(given_text), 1, <<>>)
            /\ UNCHANGED matched
    /\ ScanUnchanged

\* `for keyword in keywords: if keyword.lower() in text: start = 0`
ScanFor ==
    /\ scan # None /\ scan.pc = "for"
    /\ scan.pending # <<>>
    /\ LET keyword == Head(scan.pending)
       IN  scan' = [scan EXCEPT !.pending = Tail(@),
                                !.keyword = keyword,
                                !.start = 0,
                                !.pc = IF In(lower(keyword), scan.text) THEN "while" ELSE "for"]
    /\ UNCHANGED matched
    /\ ScanUnchanged

\* the while loop body with a break after the first match
ScanWhile_first_only ==
    /\ scan # None /\ scan.pc = "while"
    /\ \E needle \in {lower(scan.keyword)} :
       \E pos \in {find(scan.text, needle, scan.start)} :
          scan' = [scan EXCEPT !.pc = "for",
                               !.matches = IF pos = -1 THEN @
                                           ELSE Append(@, KeywordMatch(swedish_keywords, scan.text, scan.keyword, ScanCategories[scan.category], pos))]
    /\ UNCHANGED matched
    /\ ScanUnchanged

\* one iteration of `while True`: pos = text.find(keyword.lower(), start); break on -1,
\* else append the match and continue from pos + 1
ScanWhile ==
    /\ scan # None /\ scan.pc = "while"
    /\ \E needle \in {lower(scan.keyword)} :
       \E pos \in {find(scan.text, needle, scan.start)} :
          scan' = IF pos = -1 THEN [scan EXCEPT !.pc = "for"]
                  ELSE [scan EXCEPT !.matches = Append(@, KeywordMatch(swedish_keywords, scan.text, scan.keyword, ScanCategories[scan.category], pos)),
                                    !.start = pos + 1]
    /\ UNCHANGED matched
    /\ ScanUnchanged

\* `return matches` of _find_keywords: the next category's call, or the results dict
ScanReturn ==
    /\ scan # None /\ scan.pc = "for"
    /\ scan.pending = <<>>
    /\ LET results == Append(scan.results, scan.matches)
       IN  IF scan.category < Len(ScanCategories)
           THEN /\ scan' = ScanOf(swedish_keywords, scan.text, scan.category + 1, results)
                /\ UNCHANGED matched
           ELSE /\ scan' = ScanReturned
                /\ matched' = Observed("extract_keywords",
                                       [positive |-> results[1], negative |-> results[2],
                                        catalyst |-> results[3]])
    /\ ScanUnchanged

NextScan == ScanEnter \/ ScanFor \/ ScanWhile \/ ScanReturn

\* the interpreter keeps running the call: a step that is possible is eventually taken
SpecScan == InitScan /\ [][NextScan]_vars /\ WF_vars(NextScan)

\* what classify_news returns for each article when it runs alone in a fresh process
RunAlone ==
    [seed \in HashSeeds |->
        [a \in ThreadArticles |->
            classify_news(SwedishFinancialKeywords, AdvancedAnalyzer, seed,
                          a.title, a.content, a.snippet)]]

(***************************************************************************)
(* Properties of classify_news.                                            *)
(***************************************************************************)
Returned == classification # None

InUnitInterval(x) == RGe(x, Zero) /\ RLe(x, One)

\* C1: classify_news never propagates an exception to its caller; a call in which an
\* internal step raises returns the fixed empty classification (all scores 0, impact
\* "low", no catalyst, no categories, recommendation "IGNORE", summary "Analysis failed")
C1_NeverPropagates ==
    /\ classification # Raised
    /\ (Returned /\ ~CanFormat(article.title, article.content, article.snippet)) =>
          /\ classification.relevance_score = Zero
          /\ classification.sentiment_score = Zero
          /\ classification.advanced_score = Zero
          /\ classification.risk_adjusted_score = Zero
          /\ classification.signal_confidence = Zero
          /\ classification.final_score = Zero
          /\ classification.impact_level = "low"
          /\ classification.has_catalyst = FALSE
          /\ classification.categories = <<>>
          /\ classification.recommendation = "IGNORE"
          /\ classification.summary = "Analysis failed"

C1_Witness ==
    /\ Returned
    /\ article.content = Unformattable
    /\ classification.summary = "Analysis failed"

\* C2: every returned classification has relevance_score, advanced_score,
\* risk_adjusted_score and signal_confidence in [0, 1] and final_score >= 0
C2_ScoreBounds ==
    (Returned /\ classification # Raised) =>
        /\ InUnitInterval(classification.relevance_score)
        /\ InUnitInterval(classification.advanced_score)
        /\ InUnitInterval(classification.risk_adjusted_score)
        /\ InUnitInterval(classification.signal_confidence)
        /\ RGe(classification.final_score, Zero)

\* a call on an article with positive signals and a risk penalty
C2_Witness ==
    /\ Returned
    /\ RGt(classification.relevance_score, Zero)
    /\ RGt(classification.final_score, Zero)
    /\ RGt(classification.advanced_score, Zero)
    /\ RLt(classification.risk_adjusted_score, classification.advanced_score)
    /\ RGt(classification.signal_confidence, Zero)

\* C3: two calls of classify_news with identical inputs return identical classifications
\* in every field, including the order of the categories, which categories survive the
\* truncation to five, and the summary built from the first three categories
C3_Determinism ==
    (calls >= 2 /\ Returned /\ previous # None) => classification = previous

SignalTypes(signals) == {signals[i].signal_type : i \in 1..Len(signals)}

\* an item one of whose text fields cannot be formatted
Malformed(item) ==
    ~CanFormat(Get(item, "title", ""), Get(item, "content", ""), Get(item, "snippet", ""))

\* C4: the per-item loop returns exactly one classified entry per input item; a malformed
\* item receives the empty/IGNORE classification instead of being dropped, and every
\* well-formed item receives its own classification
C4_CountPreserved ==
    stage = "classified" =>
        /\ Len(classified_news) = Len(news_items)
        /\ \A i \in 1..Len(news_items) :
              LET item == news_items[i]
              IN  /\ Count(classified_news, item) = Count(news_items, item)
                  /\ "classification" \in DOMAIN item
                  /\ Malformed(item) =>
                        /\ item.classification.summary = "Analysis failed"
                        /\ item.classification.recommendation = "IGNORE"
                        /\ item.classification.final_score = Zero
                        /\ item.classification.categories = <<>>
                  /\ ~Malformed(item) =>
                        /\ item.classification.summary # "Analysis failed"
                        /\ item.classification =
                               classify_news(SwedishFinancialKeywords, AdvancedAnalyzer, hashSeed,
                                             Get(item, "title", ""), Get(item, "content", ""),
                                             Get(item, "snippet", ""))

\* a batch of a malformed item followed by a well-formed one has been classified
C4_Witness ==
    /\ stage = "classified"
    /\ Len(news_items) = 2
    /\ Malformed(news_items[1])
    /\ ~Malformed(news_items[2])
    /\ Len(classified_news) = 2
    /\ classified_news[1] = news_items[2]
    /\ classified_news[2].classification.summary = "Analysis failed"

\* C5: under any order or interleaving of classify_news calls on the shared classifier,
\* keyword analyzer and signal analyzer, each call returns what it returns when run
\* alone, and the lexicon and pattern tables are left unchanged
C5_Independent ==
    /\ swedish_keywords = SwedishFinancialKeywords
    /\ advanced_analyzer = AdvancedAnalyzer
    /\ \A t \in Threads :
          threads[t].pc = "returned" =>
              threads[t].result = RunAlone[hashSeed][threads[t].article]

\* a call has returned while a call on another article is still in progress
C5_Witness ==
    /\ threads[1].pc = "returned"
    /\ threads[2].pc = "fusion"
    /\ threads[1].article # threads[2].article
    /\ threads[1].result.summary # "Analysis failed"
    /\ threads[1].result.positive_keywords # <<>>

\* C6: adding one more occurrence of a positive lexicon phrase that already occurs in the
\* text to the snippet never decreases the sentiment_score classify_news returns
C6_Monotone ==
    added > 0 => RGe(classification.sentiment_score, previous.sentiment_score)

\* C7: the recommendation is a total function of final_score with inclusive lower
\* boundaries 0.8, 0.6, 0.4 and 0.2, and the signal list has no influence on it
C7_Recommendation ==
    advice # <<>> =>
        /\ advice[1] = "STRONG BUY" <=> RGe(given_score, Tenths(8))
        /\ advice[1] = "BUY" <=> (RGe(given_score, Tenths(6)) /\ RLt(given_score, Tenths(8)))
        /\ advice[1] = "WATCH" <=> (RGe(given_score, Tenths(4)) /\ RLt(given_score, Tenths(6)))
        /\ advice[1] = "WEAK SIGNAL" <=>
              (RGe(given_score, Tenths(2)) /\ RLt(given_score, Tenths(4)))
        /\ advice[1] = "IGNORE" <=> RLt(given_score, Tenths(2))
        /\ \A signals \in SignalLists :
              _get_recommendation(given_score, signals)[1] = advice[1]

\* a score on a boundary, with an immediate signal in the list
C7_Witness ==
    /\ advice # <<>>
    /\ given_score = Tenths(6)
    /\ advice = <<"BUY", "Immediate (1-3 days)">>

\* C8: classify_news("", "", "") returns relevance 0, sentiment 0, impact "low", no
\* catalyst and no categories, through the normal path and not the error classification
C8_EmptyInput ==
    (Returned /\ classification # Raised /\ article = EmptyArticle) =>
        /\ classification.relevance_score = Zero
        /\ classification.sentiment_score = Zero
        /\ classification.impact_level = "low"
        /\ classification.has_catalyst = FALSE
        /\ classification.categories = <<>>
        /\ classification.summary # "Analysis failed"

C8_Witness ==
    /\ Returned
    /\ article = EmptyArticle
    /\ classification.summary = "Impact: LOW | Tone: Neutral | Categories: General | Keywords: 0+ 0- 0⚡"

\* an article that triggers risk-factor keywords, no positive keyword, no catalyst keyword
\* and no signal of another family
RiskOnly ==
    /\ Returned /\ classification # Raised
    /\ CanFormat(article.title, article.content, article.snippet)
    /\ AnyIn(risk_keywords, lower(Format3(article.title, article.content, article.snippet)))
    /\ classification.positive_keywords = <<>>
    /\ classification.catalyst_keywords = <<>>
    /\ SignalTypes(classification.advanced_signals) \subseteq {"risk_factors"}

C10_StrongQuantitative ==
    (/\ Returned /\ classification # Raised
     /\ article.title = "Ericsson rapporterar 25% tillväxt"
     /\ In("kontrakt värt 2 miljarder kronor", article.snippet)) =>
        /\ \E i \in 1..Len(classification.advanced_signals) :
              /\ classification.advanced_signals[i].signal_type = "quantitative_revenue_growth"
              /\ RGt(classification.advanced_signals[i].strength, Zero)
        /\ "quantitative_large_contracts" \in SignalTypes(classification.advanced_signals)
        /\ classification.impact_level = "high"
        /\ classification.recommendation \in {"BUY", "STRONG BUY"}

\* C15: the final score classify_news computes lies between 0.0 and 1.0 for every input
C15_FinalScoreUnit ==
    (Returned /\ classification # Raised) => InUnitInterval(classification.final_score)

\* a classification built by the steps of classify_news, not by its exception handler
NormalPath ==
    /\ Returned /\ classification # Raised
    /\ CanFormat(article.title, article.content, article.snippet)

\* the accumulated risk penalty of a signal list: |strength| * confidence summed over its
\* signals of negative strength, 0 for the empty list
RiskPenalty(signals) ==
    LET IsRisk(sg) == RLt(sg.strength, Zero)
        risks == SelectSeq(signals, IsRisk)
    IN  RSum([i \in 1..Len(risks) |-> RMul(RAbs(risks[i].strength), risks[i].confidence)])

\* C16: on the normal path final_score = max(0, 0.3 * sentiment_score + 0.2 *
\* relevance_score + 0.4 * risk_adjusted_score - 0.1 * risk_factors), risk_factors being
\* the accumulated risk penalty of the signal list and 0 when the list is empty
C16_FinalScoreFormula ==
    NormalPath =>
        classification.final_score =
            RMax(Zero,
                 RSub(RAdd(RMul(Tenths(3), classification.sentiment_score),
                           RAdd(RMul(Tenths(2), classification.relevance_score),
                                RMul(Tenths(4), classification.risk_adjusted_score))),
                      RMul(Tenths(1), RiskPenalty(classification.advanced_signals))))

\* a call whose signal list carries a risk penalty and whose final score is positive
C16_Witness ==
    /\ NormalPath
    /\ RGt(RiskPenalty(classification.advanced_signals), Zero)
    /\ RGt(classification.final_score, Zero)
    /\ RGt(classification.sentiment_score, Zero)
    /\ RGt(classification.risk_adjusted_score, Zero)

\* the branch conditions of the impact decision, in the order of their priority
StrongSignalPresent ==
    \/ \E i \in 1..Len(given_signals) :
          /\ RGt(given_signals[i].strength, Tenths(7))
          /\ \/ startswith(given_signals[i].signal_type, "quantitative")
             \/ startswith(given_signals[i].signal_type, "timing")
    \/ \E i \in 1..Len(given_signals) :
          /\ given_signals[i].timeframe = "immediate"
          /\ RGt(given_signals[i].strength, Tenths(6))

HighByRelevance ==
    /\ RGt(given_relevance, Tenths(7))
    /\ (RGt(given_sentiment, Tenths(3)) \/ Len(given_catalysts) > 1)

MediumByRelevance ==
    /\ RGt(given_relevance, Tenths(4))
    /\ (RGt(given_sentiment, Tenths(1)) \/ Len(given_catalysts) >= 1)

\* C17: impact_level is decided in a fixed priority order, the first matching branch
\* winning: "high" for a signal of strength > 0.7 whose kind starts with quantitative or
\* timing or an immediate signal of strength > 0.6; otherwise "high" for relevance > 0.7
\* with sentiment > 0.3 or more than one catalyst keyword; otherwise "medium" for
\* relevance > 0.4 with sentiment > 0.1 or at least one catalyst keyword; otherwise "low"
C17_ImpactPriority ==
    impact # "" =>
        /\ StrongSignalPresent => impact = "high"
        /\ (~StrongSignalPresent /\ HighByRelevance) => impact = "high"
        /\ (~StrongSignalPresent /\ ~HighByRelevance /\ MediumByRelevance) => impact = "medium"
        /\ (~StrongSignalPresent /\ ~HighByRelevance /\ ~MediumByRelevance) => impact = "low"

\* the second branch has won over the third: no strong signal, relevance above 0.7 on
\* two catalyst keywords with a sentiment that alone gives "medium"
C17_Witness ==
    /\ impact = "high"
    /\ ~StrongSignalPresent
    /\ given_signals # <<>>
    /\ HighByRelevance /\ MediumByRelevance
    /\ Len(given_catalysts) = 2
    /\ ~RGt(given_sentiment, Tenths(3))

\* the signal conditions of the timeframe decision
ImmediatePresent ==
    \E i \in 1..Len(given_signals) :
        given_signals[i].timeframe = "immediate" /\ RGt(given_signals[i].strength, Tenths(6))

ShortTermPresent ==
    \E i \in 1..Len(given_signals) :
        given_signals[i].timeframe = "short-term" /\ RGt(given_signals[i].strength, Tenths(5))

C11_ReadOnlyIdempotent ==
    [][/\ classified_news' = classified_news
       /\ processVars' = processVars
       /\ insight_calls >= 1 => insights' = insights]_vars

\* a second call on a batch of two classified items that carry signals has returned
C11_Witness ==
    /\ insight_calls = 2
    /\ Len(classified_news) = 2
    /\ insights # Raised
    /\ insights = prior_insights
    /\ insights.total_items = 2
    /\ insights.advanced_signals_detected > 2
    /\ insights.strong_opportunities = 1

\* the number of classified items of the batch with the given impact level
WithImpact(classified, level) ==
    Cardinality({i \in 1..Len(classified) :
                    /\ "classification" \in DOMAIN classified[i]
                    /\ classified[i].classification.impact_level = level})

\* C12: the summary of a batch carries the counts of its items by impact level (low,
\* medium, high), as the report senders read them under 'impact_distribution', and the
\* three counts sum to the number of items
C12_ImpactCounts ==
    (insight_calls > 0 /\ insights # Raised) =>
        /\ "impact_distribution" \in DOMAIN insights
        /\ \A level \in {"low", "medium", "high"} :
              insights.impact_distribution[level] = WithImpact(classified_news, level)
        /\ insights.impact_distribution["low"] + insights.impact_distribution["medium"]
               + insights.impact_distribution["high"] = Len(classified_news)

\* C14: get_enhanced_insights never raises to its caller: for every non-empty batch, one
\* with an item that has no 'classification' entry included, it returns a summary whose
\* total_items is the length of the batch
C14_InsightsNeverRaise ==
    (insight_calls > 0 /\ classified_news # <<>>) =>
        /\ insights # Raised
        /\ insights.total_items = Len(classified_news)

(***************************************************************************)
(* Properties of the keyword matcher.                                      *)
(***************************************************************************)
\* C13: no public operation of the keyword matcher raises on any text, the empty string
\* included: extract_keywords, get_keyword_summary and is_high_impact_news each return a
\* result value
C13_MatcherNeverRaises ==
    matched # None => matched.value # Raised

\* a character that \b counts as part of a word: a letter, a digit or the underscore
IsWordChar(c) == c \in (DOMAIN LowerOf) \cup (DOMAIN UpperOf) \cup DigitChars \cup {"_"}

\* the occurrence of a phrase of the given length at offset pos of s is delimited by
\* phrase boundaries: no word character sits right before it or right after it
Delimited(s, pos, length) ==
    /\ pos > 0 => ~IsWordChar(Char(s, pos - 1))
    /\ pos + length < Len(s) => ~IsWordChar(Char(s, pos + length))

AllMatches(keywords) == keywords.positive \o keywords.negative \o keywords.catalyst

\* C19: matching is whole-phrase: extract_keywords reports a lexicon phrase only where it
\* occurs delimited by phrase boundaries, so a phrase embedded in a longer word or in a
\* longer lexicon phrase ("rekordorder" inside "rekordorderingång") gives no match
C19_WholePhrase ==
    (matched # None /\ matched.operation = "extract_keywords") =>
        \A i \in 1..Len(AllMatches(matched.value)) :
            LET match == AllMatches(matched.value)[i]
            IN  Delimited(lower(given_text), match.position, Len(match.keyword))

\* the number of matches of a list that carry the given keyword and position
MatchesAt(matches, keyword, pos) ==
    Cardinality({j \in 1..Len(matches) :
                    matches[j].keyword = keyword /\ matches[j].position = pos})

\* the list holds exactly one match per lexicon phrase and offset at which the lower-cased
\* phrase occurs in the lower-cased text, and nothing else
ExactlyTheOccurrences(matches, keywords, category, text_lower) ==
    /\ \A k \in 1..Len(keywords) : \A needle \in {lower(keywords[k])} :
          \A pos \in 0..Len(text_lower) :
              MatchesAt(matches, keywords[k], pos) =
                  IF StartsAt(text_lower, needle, pos) THEN 1 ELSE 0
    /\ \A j \in 1..Len(matches) :
          /\ SeqContains(keywords, matches[j].keyword)
          /\ matches[j].position \in 0..Len(text_lower)
          /\ matches[j].category = category

ScanDone == scan = ScanReturned

\* C20: for every text the occurrence scan of _find_keywords terminates, and
\* extract_keywords has then returned, for every lexicon phrase, exactly one KeywordMatch
\* per offset at which the lower-cased phrase occurs in the lower-cased text, each carrying
\* that offset as its position; the empty text yields three empty lists
C20_ScanComplete ==
    /\ <>ScanDone
    /\ [](ScanDone =>
            /\ matched # None
            /\ \A text_lower \in {lower(given_text)} : \A n \in 1..Len(ScanCategories) :
                  ExactlyTheOccurrences(matched.value[ScanCategories[n]],
                                        ScanList(swedish_keywords, ScanCategories[n]),
                                        ScanCategories[n], text_lower)
            /\ given_text = "" => AllMatches(matched.value) = <<>>)

\* the scan of a text in which a negative phrase occurs twice has returned both matches
C20_Witness ==
    /\ ScanDone
    /\ given_text = HaltedSnippet
    /\ MatchesAt(matched.value.negative, "handelsstoppas", 7) = 1
    /\ MatchesAt(matched.value.negative, "handelsstoppas", 22) = 1
    /\ Len(matched.value.negative) = 4

(***************************************************************************)
(* Properties of _calculate_keyword_score.                                 *)
(***************************************************************************)
\* the position bonus P of the score: 0.3 in the first 10% of the text, else 0.2 in the
\* first 30%, else 0
PositionBonus(position, text_length) ==
    IF RLt(R(position, 1), RMul(Tenths(1), R(text_length, 1))) THEN Tenths(3)
    ELSE IF RLt(R(position, 1), RMul(Tenths(3), R(text_length, 1))) THEN Tenths(2)
    ELSE Zero

\* the length bonus L: 0.2 for a phrase of more than 20 characters, else 0.1 for more
\* than 10, else 0
LengthBonus(keyword) ==
    IF Len(keyword) > 20 THEN Tenths(2) ELSE IF Len(keyword) > 10 THEN Tenths(1) ELSE Zero

\* the catalyst bonus C: 0.1 for a phrase of the catalyst vocabulary, else 0
CatalystBonus(keyword) ==
    IF \E j \in 1..Len(CATALYST_KEYWORDS) : CATALYST_KEYWORDS[j] = keyword
    THEN Tenths(1) ELSE Zero

\* C21: every KeywordMatch that extract_keywords returns has score
\* min(1.0, 0.5 + P + L + C), P by the position of the match in the text, L by the
\* length of the phrase, C by its membership of the catalyst vocabulary; the score lies
\* in [0.5, 1.0].
C21_KeywordScore ==
    (matched # None /\ matched.operation = "extract_keywords") =>
        \A text_length \in {Len(given_text)} :
            \A found \in {AllMatches(matched.value)} :
                \A i \in 1..Len(found) :
                    /\ found[i].score =
                           RMin(One, RAdd(Tenths(5),
                                RAdd(PositionBonus(found[i].position, text_length),
                                     RAdd(LengthBonus(found[i].keyword),
                                          CatalystBonus(found[i].keyword)))))
                    /\ RGe(found[i].score, Tenths(5))
                    /\ RLe(found[i].score, One)

\* a long catalyst phrase at the start of the text (0.5 + 0.3 + 0.2 + 0.1, clamped to 1.0)
\* and a long positive phrase past the first 30% (0.5 + 0 + 0.2 + 0)
C21_Witness ==
    /\ matched # None /\ matched.operation = "extract_keywords"
    /\ given_text = "Kapitalmarknadsuppdatering i dag, bolaget överträffar förväntningarna"
    /\ \E i \in 1..Len(matched.value.catalyst) :
          /\ matched.value.catalyst[i].keyword = "kapitalmarknadsuppdatering"
          /\ matched.value.catalyst[i].position = 0
          /\ matched.value.catalyst[i].score = One
    /\ \E i \in 1..Len(matched.value.positive) :
          /\ matched.value.positive[i].keyword = "överträffar förväntningarna"
          /\ matched.value.positive[i].position = 42
          /\ matched.value.positive[i].score = Tenths(7)

(***************************************************************************)
(* Properties of calculate_advanced_score.                                 *)
(***************************************************************************)
\* the signals of a list with strength >= 0
NonNegative(signals) ==
    LET NotRisk(sg) == RGe(sg.strength, Zero)
    IN  SelectSeq(signals, NotRisk)

\* the confidence-weighted average of strength over a list of signals, 0 for no signal
WeightedAverage(signals) ==
    IF signals = <<>> THEN Zero
    ELSE RDiv(RSum([i \in 1..Len(signals) |-> RMul(signals[i].strength, signals[i].confidence)]),
              RSum([i \in 1..Len(signals) |-> signals[i].confidence]))

\* C22: advanced_score is the confidence-weighted average of strength over the signals
\* with strength >= 0 (0 without any), the risk penalty is the sum of |strength| *
\* confidence over the signals with strength < 0, risk_adjusted_score is
\* max(0, advanced_score - penalty); so risk_adjusted_score <= advanced_score, with
\* equality when no signal is negative.
C22_AdvancedScore ==
    metrics # None =>
        /\ metrics.advanced_score = WeightedAverage(NonNegative(given_signals))
        /\ given_signals # <<>> => metrics.risk_factors = RiskPenalty(given_signals)
        /\ metrics.risk_adjusted_score =
              RMax(Zero, RSub(metrics.advanced_score, RiskPenalty(given_signals)))
        /\ RLe(metrics.risk_adjusted_score, metrics.advanced_score)
        /\ NonNegative(given_signals) = given_signals =>
              metrics.risk_adjusted_score = metrics.advanced_score

\* two signals of strength >= 0 with different confidence and strength next to a risk
\* signal: the weighted average differs from the plain one and the penalty is positive
C22_Witness ==
    /\ metrics # None
    /\ \E i, j \in 1..Len(given_signals) :
          /\ RGe(given_signals[i].strength, Zero) /\ RGe(given_signals[j].strength, Zero)
          /\ given_signals[i].confidence # given_signals[j].confidence
          /\ given_signals[i].strength # given_signals[j].strength
    /\ RGt(RiskPenalty(given_signals), Zero)
    /\ RGt(metrics.risk_adjusted_score, Zero)
    /\ RLt(metrics.risk_adjusted_score, metrics.advanced_score)

\* C23: for the empty signal list calculate_advanced_score returns the five fields it
\* returns for a non-empty one (advanced_score, confidence, signal_count,
\* risk_adjusted_score, risk_factors), each zero.
C23_EmptyMetrics ==
    (metrics # None /\ given_signals = <<>>) =>
        /\ DOMAIN metrics = {"advanced_score", "confidence", "signal_count",
                             "risk_adjusted_score", "risk_factors"}
        /\ metrics.advanced_score = Zero
        /\ metrics.confidence = Zero
        /\ metrics.signal_count = 0
        /\ metrics.risk_adjusted_score = Zero
        /\ metrics.risk_factors = Zero

(***************************************************************************)
(* Properties of analyze_advanced_signals.                                 *)
(***************************************************************************)
\* the text analyze_advanced_signals searches for the classified article
FullTextLower == lower(Format3(article.title, article.content, article.snippet))

\* the number of risk indicators that occur in a text
RiskCount(text) == Cardinality({k \in 1..Len(risk_keywords) : In(risk_keywords[k], text)})

\* the positions of the risk_factors signals in a signal list
RiskSignals(signals) == {i \in 1..Len(signals) : signals[i].signal_type = "risk_factors"}

PatternMatches(text) ==
    {<<m, p, k>> \in (1..Len(quantitative_patterns)) \X (1..4) \X (1..4) :
        /\ p <= Len(quantitative_patterns[m].patterns)
        /\ k <= Len(finditer(quantitative_patterns[m].patterns[p], text, 0))}

\* the number a match captured
Captured(text, at) ==
    ParseNumber(finditer(quantitative_patterns[at[1]].patterns[at[2]], text, 0)[at[3]])

\* the matches whose number reaches the threshold of their metric
Qualifying(text) ==
    {at \in PatternMatches(text) : Captured(text, at) >= quantitative_patterns[at[1]].threshold}

FamilyCategories ==
    [quantitative |-> "financial_metrics", competitive |-> "competitive_advantage",
     management |-> "governance", timing |-> "market_timing", value |-> "value_opportunity"]

\* a category of the keyword taxonomy that a matched positive or catalyst phrase maps to
FromKeyword(category) ==
    \E matches \in {classification.positive_keywords \o classification.catalyst_keywords} :
        \E i \in 1..Len(matches) :
            /\ category # ""
            /\ KeywordCategory(matches[i].keyword) = category

\* a category contributed by a signal of its family with strength > 0.5
FromSignal(category) ==
    \E family \in DOMAIN FamilyCategories :
        /\ FamilyCategories[family] = category
        /\ \E i \in 1..Len(classification.advanced_signals) :
              /\ In(family, classification.advanced_signals[i].signal_type)
              /\ RGt(classification.advanced_signals[i].strength, Tenths(5))

\* C26: the categories of a classification are at most 5 and pairwise different; each is
\* a keyword-taxonomy category of a matched positive or catalyst phrase, or one of
\* financial_metrics, competitive_advantage, governance, market_timing,
\* value_opportunity contributed by a signal of that family with strength > 0.5.
C26_Categories ==
    Returned =>
        \A categories \in {classification.categories} :
            /\ Len(categories) <= 5
            /\ \A i, j \in 1..Len(categories) : categories[i] = categories[j] => i = j
            /\ \A i \in 1..Len(categories) :
                  FromKeyword(categories[i]) \/ FromSignal(categories[i])

\* six categories are due (guidance, orders, earnings, financial from the phrases,
\* market_timing and financial_metrics from the signals) and five are returned
C26_Witness ==
    /\ Returned
    /\ Len(classification.categories) = 5
    /\ Cardinality({c \in {HashOrders[1][k] : k \in 1..Len(HashOrders[1])} :
                        FromKeyword(c) \/ FromSignal(c)}) = 6
    /\ \E i \in 1..5 : FromSignal(classification.categories[i])
    /\ \E i \in 1..5 : FromKeyword(classification.categories[i])

(***************************************************************************)
(* Cross-field properties of a classification.                             *)
(***************************************************************************)
\* the signal list of the classification holds no signal of positive strength
NoPositiveSignal ==
    \A i \in 1..Len(classification.advanced_signals) :
        ~RGt(classification.advanced_signals[i].strength, Zero)

\* C27: keyword evidence alone never raises the impact level: without a signal of
\* positive strength, relevance_score <= 0.4 and impact_level = "low", whatever the
\* keyword matches.
C27_KeywordsAlone ==
    (Returned /\ NoPositiveSignal) =>
        /\ RLe(classification.relevance_score, Tenths(4))
        /\ classification.impact_level = "low"

\* keyword relevance at its maximum (relevance_score = 0.4) with several catalyst
\* matches and no signal of positive strength
C27_Witness ==
    /\ Returned /\ NormalPath /\ NoPositiveSignal
    /\ classification.relevance_score = Tenths(4)
    /\ Len(classification.catalyst_keywords) > 1
    /\ classification.impact_level = "low"

\* C28: a buy recommendation requires positive keyword sentiment: with
\* sentiment_score <= 0, final_score < 0.6 and the recommendation is neither "BUY" nor
\* "STRONG BUY", whatever signals were detected.
C28_NoBuyWithoutSentiment ==
    (Returned /\ RLe(classification.sentiment_score, Zero)) =>
        /\ RLt(classification.final_score, Tenths(6))
        /\ classification.recommendation \notin {"BUY", "STRONG BUY"}

\* no positive sentiment, a signal of strength 0.9, and the recommendation stays at WATCH
C28_Witness ==
    /\ Returned /\ NormalPath
    /\ RLe(classification.sentiment_score, Zero)
    /\ \E i \in 1..Len(classification.advanced_signals) :
          RGe(classification.advanced_signals[i].strength, Tenths(9))
    /\ RGe(classification.final_score, Tenths(4))
    /\ classification.recommendation = "WATCH"

\* C29: whenever timeframe = "Immediate (1-3 days)", impact_level = "high" and
\* has_catalyst is true.
C29_ImmediateConsistent ==
    (Returned /\ classification.timeframe = "Immediate (1-3 days)") =>
        /\ classification.impact_level = "high"
        /\ classification.has_catalyst

\* an immediate timeframe that rests on a timing signal of strength 0.7 alone: no catalyst
\* phrase matched, and no signal above 0.7
C29_Witness ==
    /\ Returned /\ NormalPath
    /\ classification.timeframe = "Immediate (1-3 days)"
    /\ classification.catalyst_keywords = <<>>
    /\ \A i \in 1..Len(classification.advanced_signals) :
          RLe(classification.advanced_signals[i].strength, Tenths(7))
    /\ classification.impact_level = "high"
    /\ classification.has_catalyst

(***************************************************************************)
(* Properties of _log_picks.                                               *)
(***************************************************************************)
\* the classified items whose relevance_score is at least 0.3, by position
DuePicks ==
    {i \in 1..Len(classified_news) :
        RGe(classified_news[i].classification.relevance_score, Tenths(3))}

\* C30: after the classification step _log_picks writes one pick record for every
\* classified item with relevance_score >= 0.3 and none for the items below 0.3.
C30_PicksLogged ==
    stage = "logged" =>
        /\ Len(picks) = Cardinality(DuePicks)
        /\ \A i \in DuePicks :
              \E k \in 1..Len(picks) : picks[k].source = Get(classified_news[i], "source", "Unknown")

====
